---- MODULE Spec2Model ----
(***************************************************************************)
(* Self-healing execution engine of the Naukri job bot:                   *)
(*   - SelfHealingIntelligentNaukriBot.executeWithErrorRecovery            *)
(*     (the retry loop),                                                   *)
(*   - ErrorAnalysisEngine.analyzeError / fallbackErrorAnalysis            *)
(*     (the classifier, oracle-backed with deterministic fallback),        *)
(*   - ErrorAnalysisEngine.attemptFix / applyFix / fix* (the dispatcher),  *)
(*   - SelfHealingIntelligentNaukriBot.start and the operations it runs    *)
(*     (login, search, the apply loop) in SpecSession,                     *)
(*   - NaukriJobApplicant.applyToJobs (naukri-client.ts) in SpecClient,    *)
(*   - the apply loop with job-details tabs in SpecJobs and with the       *)
(*     session's error counters in SpecCounted,                            *)
(*   - the CallTool request handler of the MCP server (server.ts) in       *)
(*     SpecServer.                                                         *)
(* Strings whose content the code inspects with String.includes are kept   *)
(* as character sequences (Chars), so that the substring tests are the     *)
(* case-sensitive tests JavaScript performs.                               *)
(***************************************************************************)
EXTENDS Integers, Sequences, FiniteSets, TLC

\* ------------------------------------------------------------------ bounds
\* largest explicit maxRetries argument passed to executeWithErrorRecovery
MaxN == 2
\* largest maxRetryAttempts written in credentials.json (0 = field absent)
MaxCfgRetries == 1

\* ----------------------------------------------------------------- strings
Chars(s) ==
  CASE s = "Timeout 30000ms exceeded" ->
         <<"T","i","m","e","o","u","t"," ","3","0","0","0","0","m","s"," ","e","x","c","e","e","d","e","d">>
    [] s = "navigation timeout" ->
         <<"n","a","v","i","g","a","t","i","o","n"," ","t","i","m","e","o","u","t">>
    [] s = "Support Engineer" ->
         <<"S","u","p","p","o","r","t"," ","E","n","g","i","n","e","e","r">>
    [] s = "Hooli" ->
         <<"H","o","o","l","i">>
    [] s = "TIMEOUT" ->
         <<"T","I","M","E","O","U","T">>
    [] s = "locator not visible" ->
         <<"l","o","c","a","t","o","r"," ","n","o","t"," ","v","i","s","i","b","l","e">>
    [] s = "locator.click: timeout" ->
         <<"l","o","c","a","t","o","r",".","c","l","i","c","k",":"," ","t","i","m","e","o","u","t">>
    [] s = "waiting for selector" ->
         <<"w","a","i","t","i","n","g"," ","f","o","r"," ","s","e","l","e","c","t","o","r">>
    [] s = "Could not find email field" ->
         <<"C","o","u","l","d"," ","n","o","t"," ","f","i","n","d"," ","e","m","a","i","l"," ","f","i","e","l","d">>
    [] s = "Could not find password field" ->
         <<"C","o","u","l","d"," ","n","o","t"," ","f","i","n","d"," ","p","a","s","s","w","o","r","d"," ","f","i","e","l","d">>
    [] s = "Could not find submit button" ->
         <<"C","o","u","l","d"," ","n","o","t"," ","f","i","n","d"," ","s","u","b","m","i","t"," ","b","u","t","t","o","n">>
    [] s = "Login failed - Could not verify profile link:" ->
         <<"L","o","g","i","n"," ","f","a","i","l","e","d"," ","-"," ","C","o","u","l","d"," ","n","o","t"," ","v","e","r","i","f","y"," ","p","r","o","f","i","l","e"," ","l","i","n","k",":">>
    [] s = "Could not find keyword input field" ->
         <<"C","o","u","l","d"," ","n","o","t"," ","f","i","n","d"," ","k","e","y","w","o","r","d"," ","i","n","p","u","t"," ","f","i","e","l","d">>
    [] s = "Could not trigger job search" ->
         <<"C","o","u","l","d"," ","n","o","t"," ","t","r","i","g","g","e","r"," ","j","o","b"," ","s","e","a","r","c","h">>
    [] s = "Search results did not load properly" ->
         <<"S","e","a","r","c","h"," ","r","e","s","u","l","t","s"," ","d","i","d"," ","n","o","t"," ","l","o","a","d"," ","p","r","o","p","e","r","l","y">>
    [] s = "No apply button found" ->
         <<"N","o"," ","a","p","p","l","y"," ","b","u","t","t","o","n"," ","f","o","u","n","d">>
    [] s = "Cannot read properties of undefined (reading '0')" ->
         <<"C","a","n","n","o","t"," ","r","e","a","d"," ","p","r","o","p","e","r","t","i","e","s"," ","o","f"," ","u","n","d","e","f","i","n","e","d"," ","(","r","e","a","d","i","n","g"," ","'","0","'",")">>
    [] s = "login" ->
         <<"l","o","g","i","n">>
    [] s = "job_search" ->
         <<"j","o","b","_","s","e","a","r","c","h">>
    [] s = "process_job_1" ->
         <<"p","r","o","c","e","s","s","_","j","o","b","_","1">>
    [] s = "apply_to_job" ->
         <<"a","p","p","l","y","_","t","o","_","j","o","b">>
    [] s = "navigate_to_next_page" ->
         <<"n","a","v","i","g","a","t","e","_","t","o","_","n","e","x","t","_","p","a","g","e">>
    [] s = "job_analysis_and_application" ->
         <<"j","o","b","_","a","n","a","l","y","s","i","s","_","a","n","d","_","a","p","p","l","i","c","a","t","i","o","n">>
    [] s = "increase timeout" ->
         <<"i","n","c","r","e","a","s","e"," ","t","i","m","e","o","u","t">>
    [] s = "wait for load" ->
         <<"w","a","i","t"," ","f","o","r"," ","l","o","a","d">>
    [] s = "retry navigation" ->
         <<"r","e","t","r","y"," ","n","a","v","i","g","a","t","i","o","n">>
    [] s = "try alternative locators" ->
         <<"t","r","y"," ","a","l","t","e","r","n","a","t","i","v","e"," ","l","o","c","a","t","o","r","s">>
    [] s = "update selectors" ->
         <<"u","p","d","a","t","e"," ","s","e","l","e","c","t","o","r","s">>
    [] s = "wait for element" ->
         <<"w","a","i","t"," ","f","o","r"," ","e","l","e","m","e","n","t">>
    [] s = "retry operation" ->
         <<"r","e","t","r","y"," ","o","p","e","r","a","t","i","o","n">>
    [] s = "wait and retry" ->
         <<"w","a","i","t"," ","a","n","d"," ","r","e","t","r","y">>
    [] s = "solve captcha" ->
         <<"s","o","l","v","e"," ","c","a","p","t","c","h","a">>
    [] s = "reload page" ->
         <<"r","e","l","o","a","d"," ","p","a","g","e">>
    [] s = "adapt selectors" ->
         <<"a","d","a","p","t"," ","s","e","l","e","c","t","o","r","s">>
    [] s = "timeout" ->
         <<"t","i","m","e","o","u","t">>
    [] s = "locator" ->
         <<"l","o","c","a","t","o","r">>
    [] s = "selector" ->
         <<"s","e","l","e","c","t","o","r">>
    [] s = "job" ->
         <<"j","o","b">>
    [] s = "apply" ->
         <<"a","p","p","l","y">>
    [] s = "retry" ->
         <<"r","e","t","r","y">>
    [] s = "Java Developer" ->
         <<"J","a","v","a"," ","D","e","v","e","l","o","p","e","r">>
    [] s = "Acme" ->
         <<"A","c","m","e">>
    [] s = "backend services" ->
         <<"b","a","c","k","e","n","d"," ","s","e","r","v","i","c","e","s">>
    [] s = "Senior SALES Engineer" ->
         <<"S","e","n","i","o","r"," ","S","A","L","E","S"," ","E","n","g","i","n","e","e","r">>
    [] s = "Initech" ->
         <<"I","n","i","t","e","c","h">>
    [] s = "client meetings" ->
         <<"c","l","i","e","n","t"," ","m","e","e","t","i","n","g","s">>
    [] s = "QA Analyst" ->
         <<"Q","A"," ","A","n","a","l","y","s","t">>
    [] s = "Umbrella" ->
         <<"U","m","b","r","e","l","l","a">>
    [] s = "manual testing of web and mobile apps" ->
         <<"m","a","n","u","a","l"," ","t","e","s","t","i","n","g"," ","o","f"," ","w","e","b"," ","a","n","d"," ","m","o","b","i","l","e"," ","a","p","p","s">>
    [] s = "support desk, Night Shift rotation with weekly offs and allowances" ->
         <<"s","u","p","p","o","r","t"," ","d","e","s","k",","," ","N","i","g","h","t"," ","S","h","i","f","t"," ","r","o","t","a","t","i","o","n"," ","w","i","t","h"," ","w","e","e","k","l","y"," ","o","f","f","s"," ","a","n","d"," ","a","l","l","o","w","a","n","c","e","s">>
    [] s = "night shift QA" ->
         <<"n","i","g","h","t"," ","s","h","i","f","t"," ","Q","A">>
    [] s = "sales" ->
         <<"s","a","l","e","s">>
    [] s = "Night Shift" ->
         <<"N","i","g","h","t"," ","S","h","i","f","t">>
    [] s = "Error: " ->
         <<"E","r","r","o","r",":"," ">>
    [] s = "Successfully logged into Naukri.com" ->
         <<"S","u","c","c","e","s","s","f","u","l","l","y"," ","l","o","g","g","e","d"," ","i","n","t","o"," ","N","a","u","k","r","i",".","c","o","m">>
    [] s = "Search completed! Found " ->
         <<"S","e","a","r","c","h"," ","c","o","m","p","l","e","t","e","d","!"," ","F","o","u","n","d"," ">>
    [] s = "Job application process completed!" ->
         <<"J","o","b"," ","a","p","p","l","i","c","a","t","i","o","n"," ","p","r","o","c","e","s","s"," ","c","o","m","p","l","e","t","e","d","!">>
    [] s = "Application Status:" ->
         <<"A","p","p","l","i","c","a","t","i","o","n"," ","S","t","a","t","u","s",":">>
    [] s = "browserType.launch: Failed to launch" ->
         <<"b","r","o","w","s","e","r","T","y","p","e",".","l","a","u","n","c","h",":"," ","F","a","i","l","e","d"," ","t","o"," ","l","a","u","n","c","h">>
    [] s = "Missing arguments for tool call" ->
         <<"M","i","s","s","i","n","g"," ","a","r","g","u","m","e","n","t","s"," ","f","o","r"," ","t","o","o","l"," ","c","a","l","l">>
    [] s = "email" ->
         <<"e","m","a","i","l">>
    [] s = "password" ->
         <<"p","a","s","s","w","o","r","d">>
    [] s = "keywords" ->
         <<"k","e","y","w","o","r","d","s">>
    [] s = "location" ->
         <<"l","o","c","a","t","i","o","n">>
    [] s = "experience" ->
         <<"e","x","p","e","r","i","e","n","c","e">>
    [] s = " must be a string" ->
         <<" ","m","u","s","t"," ","b","e"," ","a"," ","s","t","r","i","n","g">>
    [] s = " must be an array" ->
         <<" ","m","u","s","t"," ","b","e"," ","a","n"," ","a","r","r","a","y">>
    [] s = " must be an array of strings" ->
         <<" ","m","u","s","t"," ","b","e"," ","a","n"," ","a","r","r","a","y"," ","o","f"," ","s","t","r","i","n","g","s">>
    [] s = "Value must be a string or undefined" ->
         <<"V","a","l","u","e"," ","m","u","s","t"," ","b","e"," ","a"," ","s","t","r","i","n","g"," ","o","r"," ","u","n","d","e","f","i","n","e","d">>
    [] s = "Value must be an array or undefined" ->
         <<"V","a","l","u","e"," ","m","u","s","t"," ","b","e"," ","a","n"," ","a","r","r","a","y"," ","o","r"," ","u","n","d","e","f","i","n","e","d">>
    [] s = "Array must contain only strings" ->
         <<"A","r","r","a","y"," ","m","u","s","t"," ","c","o","n","t","a","i","n"," ","o","n","l","y"," ","s","t","r","i","n","g","s">>
    [] s = "Value must be a number" ->
         <<"V","a","l","u","e"," ","m","u","s","t"," ","b","e"," ","a"," ","n","u","m","b","e","r">>
    [] s = "Unknown tool: " ->
         <<"U","n","k","n","o","w","n"," ","t","o","o","l",":"," ">>
    [] s = "Login failed: " ->
         <<"L","o","g","i","n"," ","f","a","i","l","e","d",":"," ">>
    [] s = "Job search failed: " ->
         <<"J","o","b"," ","s","e","a","r","c","h"," ","f","a","i","l","e","d",":"," ">>
    [] s = "Job application failed: " ->
         <<"J","o","b"," ","a","p","p","l","i","c","a","t","i","o","n"," ","f","a","i","l","e","d",":"," ">>
    [] s = "delete_account" ->
         <<"d","e","l","e","t","e","_","a","c","c","o","u","n","t">>
    [] s = "" ->
         <<>>

\* String.prototype.includes: case-sensitive substring test
Includes(s, sub) ==
  \E i \in 1..(Len(s) - Len(sub) + 1) : SubSeq(s, i, i + Len(sub) - 1) = sub

\* s.includes(needle) for the strings of the model
StrIncludes(s, needle) == Includes(Chars(s), Chars(needle))

\* String.prototype.toLowerCase on one character (ASCII letters)
LowerChar(c) ==
  CASE c = "A" -> "a" [] c = "B" -> "b" [] c = "C" -> "c" [] c = "D" -> "d"
    [] c = "E" -> "e" [] c = "F" -> "f" [] c = "G" -> "g" [] c = "H" -> "h"
    [] c = "I" -> "i" [] c = "J" -> "j" [] c = "K" -> "k" [] c = "L" -> "l"
    [] c = "M" -> "m" [] c = "N" -> "n" [] c = "O" -> "o" [] c = "P" -> "p"
    [] c = "Q" -> "q" [] c = "R" -> "r" [] c = "S" -> "s" [] c = "T" -> "t"
    [] c = "U" -> "u" [] c = "V" -> "v" [] c = "W" -> "w" [] c = "X" -> "x"
    [] c = "Y" -> "y" [] c = "Z" -> "z"
    [] OTHER -> c

\* String.prototype.toLowerCase on a character sequence
ToLowerCase(s) == [i \in 1..Len(s) |-> LowerChar(s[i])]

\* the error messages an operation may fail with
Messages ==
  { "Timeout 30000ms exceeded", "navigation timeout", "TIMEOUT",
    "locator not visible", "locator.click: timeout", "waiting for selector",
    "Could not find email field" }

\* the context labels the bot passes to executeWithErrorRecovery
Contexts ==
  { "login", "job_search", "process_job_1", "apply_to_job",
    "navigate_to_next_page", "job_analysis_and_application" }

\* the messages and contexts of the sessions explored by Spec
SessionMessages ==
  { "Timeout 30000ms exceeded", "navigation timeout", "locator not visible" }
SessionContexts == { "login", "apply_to_job" }

\* ------------------------------------------------------------- classifier
ErrorTypes == { "timeout", "locator", "network", "captcha", "ui_change", "unknown" }
Severities == { "low", "medium", "high" }
ClassificationFields ==
  { "errorType", "severity", "suggestedFixes", "alternativeLocators",
    "shouldRetry", "retryDelay" }

\* An ErrorAnalysis value as it exists at run time.  `missing` is the set of
\* fields the object does not carry (reading them gives undefined); it is
\* empty for every object built by the code itself.
ErrorAnalysis(t, sev, fixes, alts, retry, delay, miss) ==
  [ errorType |-> t, severity |-> sev, suggestedFixes |-> fixes,
    alternativeLocators |-> alts, shouldRetry |-> retry, retryDelay |-> delay,
    missing |-> miss ]

\* placeholder while no failure has been classified
NoAnalysis == ErrorAnalysis("none", "none", <<>>, <<>>, FALSE, 0, ClassificationFields)

\* the default candidates of getContextBasedLocators
LoginCandidates == << "#usernameField", "[name=email]", "[type=email]", "#emailField" >>
JobCandidates   == << ".jobTuple", ".job-card", ".job-listing", ".title" >>
ApplyCandidates == << "button:has-text(Apply)", ".apply-btn", "a:has-text(Apply)" >>

getContextBasedLocators(context) ==
  IF StrIncludes(context, "login") THEN LoginCandidates
  ELSE IF StrIncludes(context, "job") THEN JobCandidates
  ELSE IF StrIncludes(context, "apply") THEN ApplyCandidates
  ELSE <<>>

\* faulty variant: the locator rule reports medium severity
fallbackErrorAnalysis_LocatorMedium(errorMessage, context) ==
  IF StrIncludes(errorMessage, "timeout")
  THEN ErrorAnalysis("timeout", "medium",
         << "increase timeout", "wait for load", "retry navigation" >>,
         <<>>, TRUE, 5000, {})
  ELSE IF StrIncludes(errorMessage, "locator") \/ StrIncludes(errorMessage, "selector")
  THEN ErrorAnalysis("locator", "medium",
         << "try alternative locators", "update selectors", "wait for element" >>,
         getContextBasedLocators(context), TRUE, 2000, {})
  ELSE ErrorAnalysis("unknown", "medium",
         << "retry operation", "wait and retry" >>, <<>>, TRUE, 3000, {})

fallbackErrorAnalysis(errorMessage, context) ==
  IF StrIncludes(errorMessage, "timeout")
  THEN ErrorAnalysis("timeout", "medium",
         << "increase timeout", "wait for load", "retry navigation" >>,
         <<>>, TRUE, 5000, {})
  ELSE IF StrIncludes(errorMessage, "locator") \/ StrIncludes(errorMessage, "selector")
  THEN ErrorAnalysis("locator", "high",
         << "try alternative locators", "update selectors", "wait for element" >>,
         getContextBasedLocators(context), TRUE, 2000, {})
  ELSE ErrorAnalysis("unknown", "medium",
         << "retry operation", "wait and retry" >>, <<>>, TRUE, 3000, {})

\* ---- the oracle's reply ------------------------------------------------
\* The reply text is a sequence of segments: "prose" holds no brace, "json"
\* is one well-formed JSON object literal (its parsed value in obj),
\* "badjson" is a {...} block that JSON.parse rejects.
Prose == [ t |-> "prose", obj |-> NoAnalysis ]
BadJson == [ t |-> "badjson", obj |-> NoAnalysis ]
Json(o) == [ t |-> "json", obj |-> o ]

\* objects the oracle may encode: well-formed classifications and malformed ones
OracleObjects ==
  { ErrorAnalysis("captcha", "high", << "solve captcha" >>, <<>>, TRUE, 5000, {}),
    ErrorAnalysis("captcha", "medium", <<>>, <<>>, TRUE, 5000, {}),
    ErrorAnalysis("network", "high", << "retry operation" >>, <<>>, FALSE, 5000, {}),
    ErrorAnalysis("network", "low", << "reload page", "retry operation" >>, <<>>, TRUE, 5000, {}),
    ErrorAnalysis("ui_change", "medium", << "adapt selectors" >>, <<>>, TRUE, 1000, {}),
    ErrorAnalysis("locator", "medium", << "update selectors" >>,
                  << ".custom-a", ".custom-b" >>, TRUE, 2000, {}),
    ErrorAnalysis("timeout", "high", <<>>, <<>>, TRUE, 5000, { "suggestedFixes" }),
    ErrorAnalysis("bogus", "critical", << "retry operation" >>, <<>>, TRUE, 0, {}),
    NoAnalysis }

\* what llm.chat produces: a thrown error (service unreachable) or a text
Unreachable == [ ok |-> FALSE, content |-> <<>> ]
Reply(text) == [ ok |-> TRUE, content |-> text ]
OracleOutcomes ==
  { Unreachable, Reply(<< Prose >>), Reply(<< Prose, BadJson, Prose >>) }
  \cup { Reply(<< Prose, Json(o), Prose >>) : o \in OracleObjects }
  \cup { Reply(<< Json(o), Prose, tail >>) :
           o \in { a \in OracleObjects : a.errorType \in { "captcha", "network" } },
           tail \in { BadJson, Json(NoAnalysis) } }

\* the oracle outcomes of the sessions explored by Spec
SessionOracleOutcomes ==
  { Unreachable }
  \cup { Reply(<< Prose, Json(o), Prose >>) :
          o \in { a \in OracleObjects : a.errorType \notin { "bogus", "none" } } }

\* content.match(/\{[\s\S]*\}/): from the first "{" to the last "}"
JsonMatch(content) ==
  LET braces == { i \in 1..Len(content) : content[i].t # "prose" }
      first == CHOOSE i \in braces : \A j \in braces : i <= j
      last == CHOOSE i \in braces : \A j \in braces : j <= i
  IN  IF braces = {} THEN <<>> ELSE SubSeq(content, first, last)

\* JSON.parse accepts the matched text iff it is exactly one object literal
JsonParses(match) == Len(match) = 1 /\ match[1].t = "json"

\* a value with every required field, of the declared type and enumeration
IsClassification(a) ==
  /\ a.missing = {}
  /\ a.errorType \in ErrorTypes
  /\ a.severity \in Severities

\* faulty variant: JSON.parse outside the try block
analyzeError_ParseUncaught(o, errorMessage, context) ==
  IF o.ok /\ JsonMatch(o.content) # <<>>
  THEN IF JsonParses(JsonMatch(o.content))
       THEN [ threw |-> FALSE, analysis |-> JsonMatch(o.content)[1].obj, logged |-> TRUE ]
       ELSE [ threw |-> TRUE, analysis |-> NoAnalysis, logged |-> FALSE ]
  ELSE [ threw |-> FALSE, analysis |-> fallbackErrorAnalysis(errorMessage, context),
         logged |-> FALSE ]

\* analyzeError: [threw, analysis, logged] -- logged: logError was called
analyzeError(o, errorMessage, context) ==
  IF o.ok /\ JsonMatch(o.content) # <<>> /\ JsonParses(JsonMatch(o.content))
  THEN [ threw |-> FALSE, analysis |-> JsonMatch(o.content)[1].obj, logged |-> TRUE ]
  ELSE [ threw |-> FALSE, analysis |-> fallbackErrorAnalysis(errorMessage, context),
         logged |-> FALSE ]

\* ---------------------------------------------------------------- state
VARIABLES
  credentials,     \* this.credentials.jobPreferences: [maxRetryAttempts]
  errorAnalyzer,   \* TRUE once this.errorAnalyzer (and this.page) exist
  errorStats,      \* [totalErrors, fixedErrors, errorTypes]
  errorHistory,    \* ErrorAnalysisEngine.errorHistory: message -> count
  successfulFixes, \* ErrorAnalysisEngine.successfulFixes: context -> locator
  pc,              \* position of the one thread of control
  call,            \* arguments of the running call: [context, maxRetries]
  retries,         \* local `retries`
  attempt,         \* loop variable `attempt`
  err,             \* message of the error caught in this iteration
  oracle,          \* what llm.chat produced for this failure
  analysis,        \* local `analysis` of this iteration
  fixIdx,          \* position of attemptFix in analysis.suggestedFixes
  probes,          \* locators probed (isVisible) by the running attemptFix
  invocations,     \* times operation() was invoked by the running call
  outcome,         \* how the call ended: [kind, value]
  fixResult,       \* local `fixResult` of this iteration: "none", "success", "failure"
  resumed,         \* history: the captcha question of this iteration was answered
  classified,      \* history: [message, fallback] of the failures classified so far
  fixNotes,        \* notes of the FixAttempt held by local `fixResult`
  resolver,        \* one run of the candidate-probing loop: [candidates, visible, result]
  bot,             \* one start() session of the bot: its fields and its position
  client,          \* one applyToJobs run of NaukriJobApplicant (naukri-client.ts)
  server           \* the MCP server (server.ts): its fields and the running call

vars ==
  << credentials, errorAnalyzer, errorStats, errorHistory, successfulFixes, pc,
     call, retries, attempt, err, oracle, analysis, fixIdx, probes,
     invocations, outcome, fixResult, fixNotes, resumed, classified,
     resolver, bot, client, server >>

\* keys of errorStats.errorTypes: whatever analysis.errorType evaluates to
KindKeys == ErrorTypes \cup { "bogus", "none", "undefined" }

NoLocator == ""
NoError == ""
NoNotes == ""
NoOracle == [ ok |-> FALSE, content |-> << Prose, Prose >> ]

\* the maxRetries argument: omitted, or a number
Omitted == [ given |-> FALSE, n |-> 0 ]
Given(n) == [ given |-> TRUE, n |-> n ]

Pending == [ kind |-> "pending", value |-> "" ]
Returned(v) == [ kind |-> "returned", value |-> v ]
ReturnedNull == [ kind |-> "null", value |-> "" ]
Threw(e) == [ kind |-> "threw", value |-> e ]

\* the value a successful operation resolves to
OpResult == "result"

\* loadCredentials: `if (!maxRetryAttempts) maxRetryAttempts = 3`
DefaultMaxRetryAttempts == 3
loadCredentials(raw) ==
  [ maxRetryAttempts |-> IF raw = 0 THEN DefaultMaxRetryAttempts ELSE raw ]

\* `maxRetries || this.credentials.jobPreferences.maxRetryAttempts`
EffectiveRetries(maxRetries, creds) ==
  IF maxRetries.given /\ maxRetries.n # 0 THEN maxRetries.n
  ELSE creds.maxRetryAttempts

\* reading analysis.<field> where the field may be absent
Truthy(a, field) == field \notin a.missing /\ a[field]
ErrorTypeKey(a) == IF "errorType" \in a.missing THEN "undefined" ELSE a.errorType

\* ------------------------------------------------- the probing loop alone
\* no run of the probing loop has been made
NoResolver ==
  [ candidates |-> <<>>, visible |-> {}, ran |-> FALSE,
    result |-> [ threw |-> FALSE, success |-> FALSE, newLocator |-> NoLocator,
                 probed |-> <<>>, notes |-> NoNotes ] ]

\* ------------------------------------------------------------ the session
\* largest jobPreferences.maxApplications written in credentials.json
MaxApplications == 2

\* jobPreferences.excludeKeywords and jobPreferences.excludeCompanies
ExcludeKeywords == << "sales", "Night Shift" >>
ExcludeCompanies == << "Initech" >>

\* the job cards of the search results: what the listing shows of a job
\* (title, company, description) and the description of its details page
Jobs ==
  [ A |-> [ title |-> "Java Developer", company |-> "Acme",
            description |-> "backend services", details |-> "" ],
    K |-> [ title |-> "Senior SALES Engineer", company |-> "Initech",
            description |-> "client meetings", details |-> "" ],
    D |-> [ title |-> "QA Analyst", company |-> "Umbrella",
            description |-> "manual testing of web and mobile apps",
            details |-> "night shift QA" ],
    S |-> [ title |-> "Support Engineer", company |-> "Hooli",
            description |-> "",
            details |-> "support desk, Night Shift rotation with weekly offs and allowances" ] ]
JobIds == DOMAIN Jobs

\* the result pages of the search, in the order "Next" walks them
Site == << << "A", "K", "D" >>, << "S", "A" >> >>

\* String.prototype.trim
RECURSIVE Trim(_)
Trim(s) ==
  IF s = <<>> THEN s
  ELSE IF Head(s) = " " THEN Trim(Tail(s))
  ELSE IF s[Len(s)] = " " THEN Trim(SubSeq(s, 1, Len(s) - 1))
  ELSE s

\* the template literals `${a} ${b} ${c}` and `${a} ${b}` of isJobExcluded
Template3(a, b, c) == a \o << " " >> \o b \o << " " >> \o c
Template2(a, b) == a \o << " " >> \o b

\* `text.includes(keyword.toLowerCase())` for some excludeKeywords entry
KeywordHit(text) ==
  \E i \in 1..Len(ExcludeKeywords) :
    Includes(text, ToLowerCase(Chars(ExcludeKeywords[i])))

\* the answers of llmAnalyzer.analyzeExclusion: a verdict, or it throws
ExclusionReplies == { "EXCLUDE", "INCLUDE", "throws" }

\* faulty variant: the job text is not lower-cased before the keyword test
isJobExcluded_CaseSensitive(jobTitle, company, jobDescription, llm) ==
  IF KeywordHit(Template3(jobTitle, company, jobDescription)) THEN TRUE
  ELSE IF ExcludeCompanies = <<>> THEN FALSE
  ELSE IF llm = "EXCLUDE" THEN TRUE
  ELSE IF llm = "INCLUDE" THEN FALSE
  ELSE \/ \E i \in 1..Len(ExcludeCompanies) :
            Includes(ToLowerCase(company), ToLowerCase(Chars(ExcludeCompanies[i])))
       \/ KeywordHit(Template2(jobTitle, jobDescription))

\* isJobExcluded: the keyword test comes first; the oracle is asked about the
\* company only afterwards, and the catch block repeats both tests by hand
isJobExcluded(jobTitle, company, jobDescription, llm) ==
  IF KeywordHit(ToLowerCase(Template3(jobTitle, company, jobDescription))) THEN TRUE
  ELSE IF ExcludeCompanies = <<>> THEN FALSE
  ELSE IF llm = "EXCLUDE" THEN TRUE
  ELSE IF llm = "INCLUDE" THEN FALSE
  ELSE \/ \E i \in 1..Len(ExcludeCompanies) :
            Includes(ToLowerCase(company), ToLowerCase(Chars(ExcludeCompanies[i])))
       \/ KeywordHit(ToLowerCase(Template2(jobTitle, jobDescription)))

\* the candidates loginToNaukri probes for the three login controls
EmailSelectors == << "#usernameField", "[name=email]", "[type=email]" >>
PasswordSelectors == << "#passwordField", "[name=password]", "[type=password]" >>
SubmitSelectors ==
  << "button[type=submit]", ".login-btn", "#loginButton", "button:has-text(Login)" >>

\* the messages the workflow's operations throw
TypeErrorMessage == "Cannot read properties of undefined (reading '0')"
SearchFailures ==
  { "Could not find keyword input field", "Could not trigger job search",
    "Search results did not load properly" }

\* what an operation handed to executeWithErrorRecovery returns
Null == [ kind |-> "null", excluded |-> FALSE, applied |-> FALSE, success |-> FALSE ]
Value == [ Null EXCEPT !.kind = "value" ]
ExcludedResult == [ Value EXCEPT !.excluded = TRUE ]
ApplicationResult(applied) == [ Value EXCEPT !.applied = applied ]
NavigationResult(success) == [ Value EXCEPT !.success = success ]

\* the answers of llmAnalyzer.analyzeJob (validated: a boolean and a number
\* clamped to 0..100) and of the catch block's fallback (confidence 50)
JobAnalysis(shouldApply, confidenceScore) ==
  [ shouldApply |-> shouldApply, confidenceScore |-> confidenceScore ]
NoJobAnalysis == JobAnalysis(FALSE, 0)
JobAnalyses == { JobAnalysis(a, c) : a \in BOOLEAN, c \in { 50, 70 } }

\* jobPreferences.minimumConfidenceScore written in credentials.json
MinimumConfidenceScore == 70

\* no page: this.errorAnalyzer is still null
NoPage == -1

\* most job-details tabs the browser context holds at a time
MaxTabs == 1

\* the bot after construction, before start()
NewBot(maxApplications) ==
  [ step |-> "start",            \* position of start()
    browser |-> "none",          \* this.browser: "none", "open", "closed"
    reported |-> FALSE,          \* generateSelfHealingReport has printed
    frames |-> <<>>,             \* running executeWithErrorRecovery calls
    at |-> "none",               \* position in the innermost operation
    failure |-> NoError,         \* message of the error being handled
    loginOk |-> FALSE,           \* the profile link was verified
    view |-> "none",             \* what this.page shows: listing or details
    listingPage |-> 0,           \* result page shown by the listing
    cardIdx |-> 0,               \* position of `for (const jobCard of jobCards)`
    applicationsCount |-> 0,     \* local of analyzeAndApplyToJobs
    currentPage |-> 0,           \* local of analyzeAndApplyToJobs
    adopted |-> FALSE,           \* detailedDescription replaced description
    applied |-> FALSE,           \* local of processJobWithErrorRecovery
    appliedJobs |-> {},          \* this.appliedJobs
    excludedJobs |-> {},         \* this.excludedJobs
    applicationResults |-> {},   \* this.applicationResults
    clicks |-> [ j \in JobIds |-> 0 ],  \* history: apply clicks per job
    tabs |-> <<>>,               \* context.pages() after the first page: the job
                                 \* each open details tab shows, oldest first
    cur |-> 0,                   \* this.page: 0 the first page, k the tab tabs[k]
    mainOpen |-> TRUE,           \* the first page (search results) is not closed
    analyzerPage |-> NoPage,     \* the page ErrorAnalysisEngine was built with
    analysis |-> NoJobAnalysis,  \* local `analysis` of processJobWithErrorRecovery
    passedExclusion |-> FALSE,   \* the first isJobExcluded call said "not excluded"
    maxApplications |-> maxApplications ]

\* NaukriJobApplicant after construction, login and search
NewClient(maxApplications) ==
  [ at |-> "idle",               \* position of applyToJobs
    page |-> 1,                  \* result page the browser shows
    cardIdx |-> 0,               \* position of `for (const jobCard of jobCards)`
    applicationsCount |-> 0,     \* local of applyToJobs
    currentPage |-> 1,           \* local of applyToJobs
    appliedJobs |-> {},          \* this.appliedJobs
    clicks |-> [ j \in JobIds |-> 0 ],  \* history: apply clicks per job
    maxApplications |-> maxApplications ]

\* ---- the MCP server (server.ts): the CallTool request handler
\* the tools ListTools announces
ToolNames ==
  { "login_naukri", "search_jobs", "apply_to_jobs", "get_application_status" }

\* a JSON value as typeof and Array.isArray see it; an array keeps the items
\* that are strings and whether every item is one
JsonValue(t, n, items, strings) ==
  [ t |-> t, n |-> n, items |-> items, strings |-> strings ]
Undefined == JsonValue("undefined", 0, <<>>, FALSE)
JsonNull == JsonValue("null", 0, <<>>, FALSE)
JsonString == JsonValue("string", 0, <<>>, FALSE)
JsonNumber(n) == JsonValue("number", n, <<>>, FALSE)
JsonArray(items, strings) == JsonValue("array", 0, items, strings)

\* request.params.arguments: absent, or an object read field by field
ArgFields ==
  { "email", "password", "keywords", "location", "experience", "salary",
    "maxApplications", "excludeKeywords" }
NoArguments == [ present |-> FALSE, fields |-> [ f \in ArgFields |-> Undefined ] ]
EmptyObject == [ present |-> TRUE, fields |-> [ f \in ArgFields |-> Undefined ] ]

\* what a validate* helper does: returns the value or throws a message
Valid(v) == [ ok |-> TRUE, value |-> v, message |-> <<>> ]
Invalid(message) == [ ok |-> FALSE, value |-> Undefined, message |-> message ]

validateString(value, fieldName) ==
  IF value.t # "string" THEN Invalid(<< fieldName, " must be a string" >>)
  ELSE Valid(value)

validateOptionalString(value) ==
  IF value.t \in { "undefined", "null" } THEN Valid(Undefined)
  ELSE IF value.t # "string" THEN Invalid(<< "Value must be a string or undefined" >>)
  ELSE Valid(value)

validateStringArray(value, fieldName) ==
  IF value.t # "array" THEN Invalid(<< fieldName, " must be an array" >>)
  ELSE IF ~value.strings THEN Invalid(<< fieldName, " must be an array of strings" >>)
  ELSE Valid(value)

validateOptionalStringArray(value) ==
  IF value.t \in { "undefined", "null" } THEN Valid(JsonArray(<<>>, TRUE))
  ELSE IF value.t # "array" THEN Invalid(<< "Value must be an array or undefined" >>)
  ELSE IF ~value.strings THEN Invalid(<< "Array must contain only strings" >>)
  ELSE Valid(value)

validateNumber(value, defaultValue) ==
  IF value.t \in { "undefined", "null" } THEN Valid(JsonNumber(defaultValue))
  ELSE IF value.t # "number" THEN Invalid(<< "Value must be a number" >>)
  ELSE Valid(value)

\* the first validation that throws, in the order the statements run
FirstInvalid(checks) ==
  LET bad == { i \in 1..Len(checks) : ~checks[i].ok }
  IN  IF bad = {} THEN Valid(Undefined)
      ELSE checks[CHOOSE i \in bad : \A j \in bad : i <= j]

\* the `default` of apply_to_jobs' maxApplications
DefaultMaxApplications == 50

\* the validations of a `case` of the switch
Validation(name, a) ==
  CASE name = "login_naukri" ->
         FirstInvalid(<< validateString(a.email, "email"),
                         validateString(a.password, "password") >>)
    [] name = "search_jobs" ->
         FirstInvalid(<< validateStringArray(a.keywords, "keywords"),
                         validateString(a.location, "location"),
                         validateString(a.experience, "experience"),
                         validateOptionalString(a.salary) >>)
    [] name = "apply_to_jobs" ->
         FirstInvalid(<< validateNumber(a.maxApplications, DefaultMaxApplications),
                         validateOptionalStringArray(a.excludeKeywords) >>)
    [] OTHER -> Valid(Undefined)

\* a tool result: the pieces of its text (literal parts and substitutions of
\* the template), and for the status the substituted size and ids
ToolResult(text) == [ text |-> text, size |-> 0, ids |-> {} ]
NoResult == ToolResult(<<>>)

\* faulty variant: the catch block returns the bare message
ErrorResult_BareMessage(message) == ToolResult(message)

\* the catch block of the handler: `Error: ${error.message}`
ErrorResult(message) == ToolResult(<< "Error: " >> \o message)

\* getApplicationStatus
getApplicationStatus(appliedJobs) ==
  [ text |-> << "Application Status:", "Total jobs applied: ", "Applied job IDs: " >>,
    size |-> Cardinality(appliedJobs), ids |-> appliedJobs ]

\* most requests one server process is sent
MaxRequests == 2

\* the server after construction
NewServer ==
  [ at |-> "idle",                \* position of the handler: idle = no call running
    ready |-> 0,                  \* ensureBrowserReady: 1 browser, 2 context, 3 page
    request |-> [ name |-> "", args |-> NoArguments ],
    result |-> NoResult,          \* what the last call returned
    threw |-> FALSE,              \* the last call rejected instead of returning
    raised |-> <<>>,              \* message the handler's catch block caught
    rejected |-> FALSE,           \* history: the call failed argument checking
    actions |-> {},               \* history: tool methods this call entered
    appliedJobs |-> {},           \* this.appliedJobs
    appliedAtCall |-> {},         \* history: this.appliedJobs when the call came
    page |-> 1,                   \* result page the browser shows
    cardIdx |-> 0,                \* position of `for (const jobCard of jobCards)`
    applicationsCount |-> 0,      \* local of applyToJobs
    maxApplications |-> 0,        \* parameter of applyToJobs
    excludeKeywords |-> <<>>,     \* parameter of applyToJobs
    served |-> 0 ]                \* calls answered so far

Init ==
  /\ credentials \in { loadCredentials(raw) : raw \in 0..MaxCfgRetries }
  /\ errorAnalyzer = FALSE
  /\ errorStats = [ totalErrors |-> 0, fixedErrors |-> 0,
                    errorTypes |-> [ k \in KindKeys |-> 0 ] ]
  /\ errorHistory = [ m \in Messages |-> 0 ]
  /\ successfulFixes = [ c \in Contexts |-> NoLocator ]
  /\ pc = "idle"
  /\ call = [ context |-> "login", maxRetries |-> Omitted ]
  /\ retries = 0
  /\ attempt = 0
  /\ err = NoError
  /\ oracle = NoOracle
  /\ analysis = NoAnalysis
  /\ fixIdx = 0
  /\ probes = <<>>
  /\ invocations = 0
  /\ outcome = Pending
  /\ fixResult = "none"
  /\ fixNotes = NoNotes
  /\ resolver = NoResolver
  /\ bot = NewBot(1)
  /\ client = NewClient(1)
  /\ server = NewServer
  /\ resumed = FALSE
  /\ classified = <<>>

\* ensureBrowserReady: the page and its ErrorAnalysisEngine are created
ensureBrowserReady ==
  /\ pc = "idle"
  /\ ~errorAnalyzer
  /\ errorAnalyzer' = TRUE
  /\ UNCHANGED << server, resolver, bot, client, credentials, errorStats, errorHistory, successfulFixes, pc,
                  call, retries, attempt, err, oracle, analysis, fixIdx,
                  probes, invocations, outcome, fixResult, fixNotes, resumed, classified >>

\* the `for` test of the retry loop, entered with attempt = a
LoopEnter(a, r, ctx) ==
  IF a <= r
  THEN /\ pc' = "operation"
       /\ outcome' = Pending
  ELSE /\ pc' = "done"
       /\ outcome' = Threw("Max retries exceeded")

\* executeWithErrorRecovery(operation, context, maxRetries) is called
Call(ctx, mr) ==
  /\ pc = "idle"
  /\ errorAnalyzer
  /\ call' = [ context |-> ctx, maxRetries |-> mr ]
  /\ retries' = EffectiveRetries(mr, credentials)
  /\ attempt' = 1
  /\ invocations' = 0
  /\ err' = NoError
  /\ oracle' = NoOracle
  /\ analysis' = NoAnalysis
  /\ fixIdx' = 0
  /\ probes' = <<>>
  /\ fixResult' = "none"
  /\ fixNotes' = NoNotes
  /\ resumed' = FALSE
  /\ LoopEnter(1, EffectiveRetries(mr, credentials), ctx)
  /\ UNCHANGED << server, resolver, bot, client, credentials, errorAnalyzer, errorStats, errorHistory,
                  successfulFixes, classified >>

\* `const result = await operation(); return result;`
OperationSucceeds ==
  /\ pc = "operation"
  /\ invocations' = invocations + 1
  /\ pc' = "done"
  /\ outcome' = Returned(OpResult)
  /\ err' = NoError
  /\ oracle' = NoOracle
  /\ analysis' = NoAnalysis
  /\ fixIdx' = 0
  /\ probes' = <<>>
  /\ fixResult' = "none"
  /\ fixNotes' = NoNotes
  /\ resumed' = FALSE
  /\ UNCHANGED << server, resolver, bot, client, credentials, errorAnalyzer, errorStats, errorHistory,
                  successfulFixes, call, retries, attempt, classified >>

\* faulty variant: the fix attempts start on the rule-based classification,
\* before analyzeError was called
OperationFails_FixBeforeClassification(m) ==
  /\ pc = "operation"
  /\ invocations' = invocations + 1
  /\ err' = m
  /\ errorStats' = [ errorStats EXCEPT !.totalErrors = @ + 1 ]
  /\ oracle' = NoOracle
  /\ analysis' = fallbackErrorAnalysis(m, call.context)
  /\ fixIdx' = 0
  /\ probes' = <<>>
  /\ pc' = "attemptFix"
  /\ outcome' = Pending
  /\ fixResult' = "none"
  /\ fixNotes' = NoNotes
  /\ resumed' = FALSE
  /\ UNCHANGED << server, resolver, bot, client, credentials, errorAnalyzer, errorHistory, successfulFixes,
                  call, retries, attempt, classified >>

\* operation() rejects with message m: the catch block up to the analyzer test
OperationFails(m) ==
  /\ pc = "operation"
  /\ invocations' = invocations + 1
  /\ err' = m
  /\ errorStats' = [ errorStats EXCEPT !.totalErrors = @ + 1 ]
  /\ oracle' = NoOracle
  /\ analysis' = NoAnalysis
  /\ fixIdx' = 0
  /\ probes' = <<>>
  /\ IF ~errorAnalyzer
     THEN /\ pc' = "done"
          /\ outcome' = Threw(m)
     ELSE /\ pc' = "analyze"
          /\ outcome' = Pending
  /\ fixResult' = "none"
  /\ fixNotes' = NoNotes
  /\ resumed' = FALSE
  /\ UNCHANGED << server, resolver, bot, client, credentials, errorAnalyzer, errorHistory, successfulFixes,
                  call, retries, attempt, classified >>

\* faulty variant: a fix is attempted on the last attempt too
ShouldAttemptFix_AlsoOnLastAttempt(a, r, an) == a <= r /\ Truthy(an, "shouldRetry")

\* `attempt < retries && analysis.shouldRetry`
ShouldAttemptFix(a, r, an) == a < r /\ Truthy(an, "shouldRetry")

\* faulty variant: the error is swallowed whatever the severity
GiveUp_NeverRethrows(an, m) == ReturnedNull

\* the else branch: `severity === 'high'` rethrows, anything else returns null
GiveUp(an, m) ==
  IF "severity" \notin an.missing /\ an.severity = "high" THEN Threw(m) ELSE ReturnedNull

\* analyzeError, the errorTypes bookkeeping and the retry decision
AnalyzeError(o) ==
  /\ pc = "analyze"
  /\ LET r == analyzeError(o, err, call.context)
         an == r.analysis
     IN  /\ oracle' = o
         /\ IF r.threw
            THEN /\ analysis' = NoAnalysis
                 /\ classified' = classified
                 /\ errorStats' = errorStats
                 /\ errorHistory' = errorHistory
                 /\ pc' = "done"
                 /\ outcome' = Threw("SyntaxError")
            ELSE /\ analysis' = an
                 /\ classified' = Append(classified,
                                      [ message |-> err, fallback |-> ~r.logged ])
                 /\ errorHistory' = IF r.logged
                                    THEN [ errorHistory EXCEPT ![err] = @ + 1 ]
                                    ELSE errorHistory
                 /\ errorStats' = [ errorStats EXCEPT
                                      !.errorTypes[ErrorTypeKey(an)] = @ + 1 ]
                 /\ IF ShouldAttemptFix(attempt, retries, an)
                    THEN /\ pc' = "attemptFix"
                         /\ outcome' = Pending
                    ELSE /\ pc' = "done"
                         /\ outcome' = GiveUp(an, err)
  /\ UNCHANGED << server, resolver, bot, client, credentials, errorAnalyzer, successfulFixes, call, retries,
                  attempt, err, fixIdx, probes, invocations, fixResult, fixNotes, resumed >>

\* ------------------------------------------------------------- dispatcher
Range(s) == { s[i] : i \in 1..Len(s) }

\* what one fix handler produced: it threw, or returned a FixAttempt
FixThrew(probed) ==
  [ threw |-> TRUE, success |-> FALSE, newLocator |-> NoLocator, probed |-> probed,
    notes |-> NoNotes ]
FixAttempt(success, newLocator, probed, notes) ==
  [ threw |-> FALSE, success |-> success, newLocator |-> newLocator, probed |-> probed,
    notes |-> notes ]

\* the FixAttempt attemptFix returns when no suggestion succeeded
ManualIntervention == "Manual intervention required"

\* fixTimeout: the label selects the page action; pageOk = the action completes
fixTimeout(fix, pageOk) ==
  IF \/ StrIncludes(fix, "increase timeout")
     \/ StrIncludes(fix, "wait for load")
     \/ StrIncludes(fix, "retry navigation")
  THEN IF pageOk
       THEN FixAttempt(TRUE, NoLocator, <<>>,
                       IF StrIncludes(fix, "increase timeout") THEN "Added 5 second delay"
                       ELSE IF StrIncludes(fix, "wait for load") THEN "Waited for DOM to load"
                       ELSE "Reloaded page")
       ELSE FixThrew(<<>>)
  ELSE FixAttempt(FALSE, NoLocator, <<>>, "Timeout fix not implemented")

\* the built-in candidates of fixLocator
SmartLoginLocators ==
  << "#usernameField, #emailField, [name=email], [type=email]",
     "#passwordField, [name=password], [type=password]",
     "button[type=submit], .login-btn, #loginButton" >>
SmartJobLocators ==
  << ".jobTuple, .job-card, .job-listing",
     "button:has-text(Apply), a:has-text(Apply), .apply-btn",
     ".job-title, .title, h2, h3" >>

\* faulty variant: the last visible candidate is taken
FirstVisible_LastHit(candidates, visible) ==
  LET hits == { i \in 1..Len(candidates) : candidates[i] \in visible }
  IN  IF hits = {} THEN 0 ELSE CHOOSE i \in hits : \A j \in hits : i >= j

\* index of the first candidate that is visible, 0 when none is
FirstVisible(candidates, visible) ==
  LET hits == { i \in 1..Len(candidates) : candidates[i] \in visible }
  IN  IF hits = {} THEN 0 ELSE CHOOSE i \in hits : \A j \in hits : i <= j

\* the candidates fixLocator probes, in the order it probes them
LocatorCandidates(alternativeLocators, context) ==
  alternativeLocators
  \o (IF StrIncludes(context, "login") THEN SmartLoginLocators ELSE <<>>)
  \o (IF StrIncludes(context, "job") \/ StrIncludes(context, "apply")
      THEN SmartJobLocators ELSE <<>>)

\* probing a candidate list in order, returning at the first visible one
ProbeInOrder(candidates, visible) ==
  LET k == FirstVisible(candidates, visible)
  IN  IF k = 0 THEN FixAttempt(FALSE, NoLocator, candidates, "No working alternative locators found")
      ELSE FixAttempt(TRUE, candidates[k], SubSeq(candidates, 1, k), "Found working locator")

\* the notes of a fixLocator hit name the list the locator came from
LocatorNotes(alternativeLocators, context, k) ==
  IF k <= Len(alternativeLocators) THEN "Found working locator"
  ELSE IF StrIncludes(context, "login")
          /\ k <= Len(alternativeLocators) + Len(SmartLoginLocators)
  THEN "Discovered login element"
  ELSE "Discovered job element"

\* fixLocator: an isVisible that throws counts as not visible
fixLocator(fix, alternativeLocators, context, visible) ==
  LET res == ProbeInOrder(LocatorCandidates(alternativeLocators, context), visible)
  IN  IF res.success
      THEN [ res EXCEPT !.notes = LocatorNotes(alternativeLocators, context,
                                                Len(res.probed)) ]
      ELSE res

\* selector-like tokens of the oracle's free text, duplicates removed, at most 5
RECURSIVE Dedup(_)
Dedup(s) ==
  IF s = <<>> THEN <<>>
  ELSE LET init == Dedup(SubSeq(s, 1, Len(s) - 1))
           last == s[Len(s)]
       IN  IF last \in Range(init) THEN init ELSE Append(init, last)

extractSelectorsFromText(tokens) ==
  LET d == Dedup(tokens) IN SubSeq(d, 1, IF Len(d) < 5 THEN Len(d) ELSE 5)

\* the oracle's answers to the "UI has changed" prompt, as their token lists
UiReplies ==
  { [ ok |-> FALSE, tokens |-> <<>> ],
    [ ok |-> TRUE, tokens |-> <<>> ],
    [ ok |-> TRUE, tokens |-> << ".new-login", ".new-login", "#apply2" >> ] }

\* fixUIChange: screenshot/title may throw; a failed chat is swallowed
fixUIChange(fix, context, pageOk, uiReply, visible) ==
  IF ~pageOk THEN FixThrew(<<>>)
  ELSE IF ~uiReply.ok THEN FixAttempt(FALSE, NoLocator, <<>>, "Could not adapt to UI changes")
  ELSE LET res == ProbeInOrder(extractSelectorsFromText(uiReply.tokens), visible)
       IN  [ res EXCEPT !.notes = IF res.success THEN "Adapted to UI change"
                                  ELSE "Could not adapt to UI changes" ]

\* fixNetworkIssue: only a label containing "retry" reloads the page
fixNetworkIssue(fix, pageOk) ==
  IF StrIncludes(fix, "retry")
  THEN IF pageOk
       THEN FixAttempt(TRUE, NoLocator, <<>>, "Reloaded page after network delay")
       ELSE FixThrew(<<>>)
  ELSE FixAttempt(FALSE, NoLocator, <<>>, "Network issue not resolved")

\* the FixAttempt fixCaptcha returns once the readline question is answered
fixCaptchaResult == FixAttempt(TRUE, NoLocator, <<>>, "CAPTCHA resolved manually")

\* the `default:` arm of applyFix
fixDefault(fix) == FixAttempt(FALSE, NoLocator, <<>>, "Unknown error type")

\* the suggestion attemptFix is working on
CurrentFix == analysis.suggestedFixes[fixIdx]

\* back in executeWithErrorRecovery after attemptFix: wait retryDelay, next attempt
NextAttempt ==
  /\ attempt' = attempt + 1
  /\ LoopEnter(attempt + 1, retries, call.context)

\* faulty variant: attemptFix gives up at the first suggestion that fails
HandlerResult_StopsAtFirstFailure(res) ==
  /\ probes' = probes \o res.probed
  /\ IF ~res.threw /\ res.success
     THEN /\ successfulFixes' =
               IF res.newLocator # NoLocator
               THEN [ successfulFixes EXCEPT ![call.context] = res.newLocator ]
               ELSE successfulFixes
          /\ errorStats' = [ errorStats EXCEPT !.fixedErrors = @ + 1 ]
          /\ fixIdx' = fixIdx
          /\ fixResult' = "success"
          /\ fixNotes' = res.notes
          /\ NextAttempt
     ELSE /\ successfulFixes' = successfulFixes
          /\ errorStats' = errorStats
          /\ fixIdx' = fixIdx
          /\ fixResult' = "failure"
          /\ fixNotes' = ManualIntervention
          /\ NextAttempt
  /\ UNCHANGED << server, resolver, bot, client, credentials, errorAnalyzer, errorHistory, call, retries, err,
                  oracle, analysis, invocations, classified >>

\* attemptFix and the executor act on the result of one applyFix call
HandlerResult(res) ==
  /\ probes' = probes \o res.probed
  /\ IF ~res.threw /\ res.success
     THEN /\ successfulFixes' =
               IF res.newLocator # NoLocator
               THEN [ successfulFixes EXCEPT ![call.context] = res.newLocator ]
               ELSE successfulFixes
          /\ errorStats' = [ errorStats EXCEPT !.fixedErrors = @ + 1 ]
          /\ fixIdx' = fixIdx
          /\ fixResult' = "success"
          /\ fixNotes' = res.notes
          /\ NextAttempt
     ELSE /\ successfulFixes' = successfulFixes
          /\ errorStats' = errorStats
          /\ IF fixIdx < Len(analysis.suggestedFixes)
             THEN /\ fixIdx' = fixIdx + 1
                  /\ pc' = "applyFix"
                  /\ attempt' = attempt
                  /\ outcome' = outcome
                  /\ fixResult' = fixResult
                  /\ fixNotes' = fixNotes
             ELSE /\ fixIdx' = fixIdx
                  /\ fixResult' = "failure"
                  /\ fixNotes' = ManualIntervention
                  /\ NextAttempt
  /\ UNCHANGED << server, resolver, bot, client, credentials, errorAnalyzer, errorHistory, call, retries, err,
                  oracle, analysis, invocations, classified >>

\* attemptFix is entered: the log line reads analysis.suggestedFixes[0]
AttemptFixEnter ==
  /\ pc = "attemptFix"
  /\ probes' = <<>>
  /\ IF "suggestedFixes" \in analysis.missing
     THEN /\ pc' = "done"
          /\ outcome' = Threw("TypeError")
          /\ fixIdx' = 0
          /\ attempt' = attempt
          /\ fixResult' = fixResult
          /\ fixNotes' = fixNotes
     ELSE IF analysis.suggestedFixes = <<>>
     THEN /\ fixIdx' = 0
          /\ fixResult' = "failure"
          /\ fixNotes' = ManualIntervention
          /\ NextAttempt
     ELSE /\ fixIdx' = 1
          /\ pc' = "applyFix"
          /\ attempt' = attempt
          /\ outcome' = outcome
          /\ fixResult' = fixResult
          /\ fixNotes' = fixNotes
  /\ UNCHANGED << server, resolver, bot, client, credentials, errorAnalyzer, errorStats, errorHistory,
                  successfulFixes, call, retries, err, oracle, analysis,
                  invocations, resumed, classified >>

ApplyFixTimeout(pageOk) ==
  /\ pc = "applyFix"
  /\ ErrorTypeKey(analysis) = "timeout"
  /\ HandlerResult(fixTimeout(CurrentFix, pageOk))
  /\ resumed' = resumed

ApplyFixLocator(visible) ==
  /\ pc = "applyFix"
  /\ ErrorTypeKey(analysis) = "locator"
  /\ IF "alternativeLocators" \in analysis.missing
     THEN HandlerResult(FixThrew(<<>>))
     ELSE HandlerResult(fixLocator(CurrentFix, analysis.alternativeLocators,
                                   call.context, visible))
  /\ resumed' = resumed

ApplyFixUIChange(pageOk, uiReply, visible) ==
  /\ pc = "applyFix"
  /\ ErrorTypeKey(analysis) = "ui_change"
  /\ HandlerResult(fixUIChange(CurrentFix, call.context, pageOk, uiReply, visible))
  /\ resumed' = resumed

ApplyFixNetwork(pageOk) ==
  /\ pc = "applyFix"
  /\ ErrorTypeKey(analysis) = "network"
  /\ HandlerResult(fixNetworkIssue(CurrentFix, pageOk))
  /\ resumed' = resumed

\* faulty variant: the captcha handler reports success without waiting
ApplyFixCaptcha_AutoResolve ==
  /\ pc = "applyFix"
  /\ ErrorTypeKey(analysis) = "captcha"
  /\ HandlerResult(fixCaptchaResult)
  /\ resumed' = resumed

\* fixCaptcha asks its question on stdin and awaits the answer
ApplyFixCaptcha ==
  /\ pc = "applyFix"
  /\ ErrorTypeKey(analysis) = "captcha"
  /\ pc' = "captchaWait"
  /\ UNCHANGED << server, resolver, bot, client, credentials, errorAnalyzer, errorStats, errorHistory,
                  successfulFixes, call, retries, attempt, err, oracle,
                  analysis, fixIdx, probes, invocations, outcome, fixResult, fixNotes,
                  resumed, classified >>

\* Enter is pressed: the readline callback resolves the promise
CaptchaResume ==
  /\ pc = "captchaWait"
  /\ HandlerResult(fixCaptchaResult)
  /\ resumed' = TRUE

ApplyFixDefault ==
  /\ pc = "applyFix"
  /\ ErrorTypeKey(analysis) \notin { "timeout", "locator", "ui_change", "network", "captcha" }
  /\ HandlerResult(fixDefault(CurrentFix))
  /\ resumed' = resumed

\* the maxRetries arguments a call may carry
RetryArgs == { Omitted } \cup { Given(n) : n \in 0..MaxN }

\* the locators the running fix may probe
Probeable ==
  IF "alternativeLocators" \in analysis.missing THEN {}
  ELSE Range(LocatorCandidates(analysis.alternativeLocators, call.context))

Next ==
  \/ ensureBrowserReady
  \/ \E ctx \in SessionContexts, mr \in RetryArgs : Call(ctx, mr)
  \/ OperationSucceeds
  \/ \E m \in SessionMessages : OperationFails(m)
  \/ \E o \in SessionOracleOutcomes : AnalyzeError(o)
  \/ AttemptFixEnter
  \/ \E pageOk \in BOOLEAN : ApplyFixTimeout(pageOk)
  \/ \E visible \in SUBSET Probeable : ApplyFixLocator(visible)
  \/ \E pageOk \in BOOLEAN, uiReply \in UiReplies,
        visible \in SUBSET { ".new-login", "#apply2" } :
       ApplyFixUIChange(pageOk, uiReply, visible)
  \/ \E pageOk \in BOOLEAN : ApplyFixNetwork(pageOk)
  \/ ApplyFixCaptcha
  \/ CaptchaResume
  \/ ApplyFixDefault

Spec == Init /\ [][Next]_vars

\* ---- the classifier on its own: every message, context and oracle outcome
\* the state in which the first failure of a call (message m, context ctx,
\* default retry count) has just been caught
InitClassify ==
  /\ credentials = loadCredentials(0)
  /\ errorAnalyzer = TRUE
  /\ errorStats = [ totalErrors |-> 1, fixedErrors |-> 0,
                    errorTypes |-> [ k \in KindKeys |-> 0 ] ]
  /\ errorHistory = [ m \in Messages |-> 0 ]
  /\ successfulFixes = [ c \in Contexts |-> NoLocator ]
  /\ pc = "analyze"
  /\ \E ctx \in Contexts : call = [ context |-> ctx, maxRetries |-> Omitted ]
  /\ retries = EffectiveRetries(Omitted, loadCredentials(0))
  /\ attempt = 1
  /\ err \in Messages
  /\ oracle = NoOracle
  /\ analysis = NoAnalysis
  /\ fixIdx = 0
  /\ probes = <<>>
  /\ invocations = 1
  /\ outcome = Pending
  /\ fixResult = "none"
  /\ fixNotes = NoNotes
  /\ resolver = NoResolver
  /\ bot = NewBot(1)
  /\ client = NewClient(1)
  /\ server = NewServer
  /\ resumed = FALSE
  /\ classified = <<>>

NextClassify == \E o \in OracleOutcomes : AnalyzeError(o)

SpecClassify == InitClassify /\ [][NextClassify]_vars

\* ---- the probing loop on its own: every candidate list, every visibility
\* the locators a candidate list is drawn from
ProbeLocators == { "#usernameField", "[name=email]", "[type=email]" }
\* longest candidate list explored
MaxCandidates == 3

CandidateLists ==
  UNION { [ 1..n -> ProbeLocators ] : n \in 0..MaxCandidates }

\* the variables of the retry engine
engineVars ==
  << credentials, errorAnalyzer, errorStats, errorHistory, successfulFixes, pc,
     call, retries, attempt, err, oracle, analysis, fixIdx, probes,
     invocations, outcome, fixResult, fixNotes, resumed, classified >>

\* a candidate list and a page (the set of locators it shows) are given
Resolve(c, v) ==
  /\ ~resolver.ran
  /\ resolver.candidates = <<>> /\ resolver.visible = {}
  /\ resolver' = [ candidates |-> c, visible |-> v,
                   result |-> ProbeInOrder(c, v), ran |-> TRUE ]
  /\ UNCHANGED << engineVars, bot, client, server >>

NextResolve ==
  \E c \in CandidateLists, v \in SUBSET ProbeLocators : Resolve(c, v)

SpecResolve == Init /\ [][NextResolve]_vars

\* ---- one session of the bot: start() and the operations it runs
\* the innermost running executeWithErrorRecovery call
Top(b) == b.frames[Len(b.frames)]
Pop(b) == [ b EXCEPT !.frames = SubSeq(@, 1, Len(@) - 1) ]

\* where the operation of a call starts
BodyStart(context) ==
  CASE context = "login" -> "login"
    [] context = "job_search" -> "search"
    [] context = "job_analysis_and_application" -> "jobs_enter"
    [] context = "process_job_1" -> "job_extract"
    [] context = "apply_to_job" -> "apply"
    [] context = "navigate_to_next_page" -> "navigate"

\* executeWithErrorRecovery(operation, context, maxRetries) is entered
Enter(b, context, maxRetries) ==
  [ b EXCEPT !.frames = Append(@, [ context |-> context, attempt |-> 1,
                                     retries |-> EffectiveRetries(maxRetries, credentials) ]),
             !.at = BodyStart(context),
             !.failure = NoError ]

\* what this.page shows: a details tab, or what the first page is at
Shows(b) == IF b.cur > 0 THEN "details" ELSE b.view

\* context.pages().length
PageCount(b) == Len(b.tabs) + (IF b.mainOpen THEN 1 ELSE 0)

\* the card the for loop of analyzeAndApplyToJobs is at
CardJob(b) == Site[b.listingPage][b.cardIdx]

\* the operation of the innermost call throws m
Fail(b, m) == [ b EXCEPT !.failure = m, !.at = "catch" ]

\* the innermost call throws m to its caller; start() catches what nobody else does
Propagate(b, m) ==
  IF Len(b.frames) = 1
  THEN [ Pop(b) EXCEPT !.step = "catch", !.at = "none", !.failure = m ]
  ELSE Fail(Pop(b), m)

\* the innermost call returns v (null included) and its caller goes on
Return(b, v) ==
  LET context == Top(b).context
      p == [ Pop(b) EXCEPT !.failure = NoError ]
  IN  CASE context = "login" ->
             Enter([ p EXCEPT !.step = "search" ], "job_search", Omitted)
        [] context = "job_search" ->
             Enter([ p EXCEPT !.step = "jobs" ], "job_analysis_and_application", Omitted)
        [] context = "job_analysis_and_application" ->
             [ p EXCEPT !.step = "report", !.at = "none" ]
        [] context = "process_job_1" ->
             [ p EXCEPT
                 !.excludedJobs =
                    IF v.kind = "value" /\ v.excluded THEN @ \cup { CardJob(b) } ELSE @,
                 !.applicationResults =
                    IF v.kind = "value" /\ ~v.excluded
                    THEN @ \cup { [ job |-> CardJob(b), applied |-> v.applied ] } ELSE @,
                 !.applicationsCount =
                    IF v.kind = "value" /\ ~v.excluded /\ v.applied THEN @ + 1 ELSE @,
                 !.cardIdx = @ + 1,
                 !.analysis = NoJobAnalysis, !.passedExclusion = FALSE,
                 !.at = "jobs_for" ]
        [] context = "apply_to_job" ->
             [ p EXCEPT
                 !.appliedJobs = IF v.kind = "value" THEN @ \cup { CardJob(b) } ELSE @,
                 !.applied = (v.kind = "value"),
                 !.at = "job_back" ]
        [] context = "navigate_to_next_page" ->
             IF v.kind = "value" /\ v.success
             THEN [ p EXCEPT !.currentPage = @ + 1, !.at = "jobs_while" ]
             ELSE [ p EXCEPT !.at = "jobs_exit" ]

\* one step of the session: the bot changes, the retry engine's own
\* bookkeeping is followed by Spec
Session(b) ==
  /\ bot' = b
  /\ UNCHANGED << engineVars, resolver, client, server >>

\* start(): ensureBrowserReady launches the browser, then loginToNaukri
Start(launched) ==
  /\ bot.step = "start"
  /\ Session(IF launched
             THEN Enter([ bot EXCEPT !.step = "login", !.browser = "open",
                                     !.analyzerPage = 0 ],
                        "login", Omitted)
             ELSE [ bot EXCEPT !.step = "catch", !.failure = "Timeout 30000ms exceeded" ])

\* the operation of loginToNaukri: goto, the three controls, the profile link
LoginBody(loaded, visible, verified) ==
  /\ bot.at = "login"
  /\ Session(
       IF ~loaded THEN Fail(bot, "Timeout 30000ms exceeded")
       ELSE IF ~ProbeInOrder(EmailSelectors, visible).success
       THEN Fail(bot, "Could not find email field")
       ELSE IF ~ProbeInOrder(PasswordSelectors, visible).success
       THEN Fail(bot, "Could not find password field")
       ELSE IF ~ProbeInOrder(SubmitSelectors, visible).success
       THEN Fail(bot, "Could not find submit button")
       ELSE IF ~verified
       THEN Fail(bot, "Login failed - Could not verify profile link:")
       ELSE Return([ bot EXCEPT !.loginOk = TRUE ], Value))

\* the operation of searchJobs: it throws one of its messages or shows page 1
SearchBody(m) ==
  /\ bot.at = "search"
  /\ Session(IF m # NoError THEN Fail(bot, m)
             ELSE Return([ bot EXCEPT !.view = "listing", !.listingPage = 1 ], Value))

\* the operation of analyzeAndApplyToJobs starts: its locals are initialised
JobsEnter ==
  /\ bot.at = "jobs_enter"
  /\ Session([ bot EXCEPT !.applicationsCount = 0, !.currentPage = 1,
                          !.at = "jobs_while" ])

\* `while (applicationsCount < maxApplications)` and the search for job cards
JobsWhile(found) ==
  /\ bot.at = "jobs_while"
  /\ Session(
       IF /\ bot.applicationsCount < bot.maxApplications
          /\ found /\ Shows(bot) = "listing"
       THEN [ bot EXCEPT !.cardIdx = 1, !.at = "jobs_for" ]
       ELSE [ bot EXCEPT !.at = "jobs_exit" ])

\* `for (const jobCard of jobCards)`: the next card, or navigateToNextPage
JobsFor ==
  /\ bot.at = "jobs_for"
  /\ Session(
       IF /\ bot.cardIdx <= Len(Site[bot.listingPage])
          /\ bot.applicationsCount < bot.maxApplications
       THEN Enter([ bot EXCEPT !.adopted = FALSE, !.applied = FALSE,
                               !.analysis = NoJobAnalysis, !.passedExclusion = FALSE ],
                  "process_job_1", Given(2))
       ELSE Enter(bot, "navigate_to_next_page", Given(2)))

\* processJobWithErrorRecovery up to the first exclusion check
JobExtract(extracted, llm) ==
  /\ bot.at = "job_extract"
  /\ LET job == Jobs[CardJob(bot)]
     IN  Session(
           IF ~extracted \/ ~bot.mainOpen THEN Return(bot, Null)
           ELSE IF CardJob(bot) \in bot.appliedJobs THEN Return(bot, Null)
           ELSE IF isJobExcluded(Chars(job.title), Chars(job.company),
                                 Chars(job.description), llm)
           THEN Return(bot, ExcludedResult)
           ELSE [ bot EXCEPT !.adopted = FALSE, !.applied = FALSE,
                             !.analysis = NoJobAnalysis, !.passedExclusion = TRUE,
                             !.at = "job_open" ])

\* the click on the job -- it fails ("no"), loads the details in the same
\* page ("same") or opens them in a new tab the bot switches to ("tab") --,
\* the detailed description read from this.page and its exclusion check
JobOpen(opened, shown, llm, back) ==
  /\ bot.at = "job_open"
  /\ opened = "tab" => Len(bot.tabs) < MaxTabs
  /\ opened # "no" => bot.mainOpen
  /\ LET job == Jobs[CardJob(bot)]
         clicked == [ bot EXCEPT
                        !.view = IF opened = "same" THEN "details" ELSE @,
                        !.tabs = IF opened = "tab" THEN Append(@, CardJob(bot)) ELSE @,
                        !.cur = IF opened = "tab" THEN Len(bot.tabs) + 1 ELSE @ ]
         readable == clicked.cur > 0 \/ opened = "same"
         read == IF clicked.cur > 0 THEN Jobs[clicked.tabs[clicked.cur]] ELSE job
         desc == Trim(Chars(read.details))
         adopt == readable /\ shown /\ desc # <<>>
                  /\ Len(desc) > Len(Chars(job.description))
         b == [ clicked EXCEPT !.adopted = adopt ]
     IN  Session(
           IF adopt /\ isJobExcluded(Chars(job.title), Chars(job.company), desc, llm)
           THEN Return([ b EXCEPT !.view = IF back /\ b.cur = 0 THEN "listing" ELSE @ ],
                       ExcludedResult)
           ELSE [ b EXCEPT !.at = "job_analyse" ])

\* faulty variant: the confidence threshold is not applied
JobAnalyse_IgnoresConfidence(a) ==
  /\ bot.at = "job_analyse"
  /\ Session(
       IF a.shouldApply
       THEN Enter([ bot EXCEPT !.analysis = a ], "apply_to_job", Given(2))
       ELSE [ bot EXCEPT !.analysis = a, !.applied = FALSE, !.at = "job_back" ])

\* the oracle's (or the fallback's) verdict on the job and the test
\* `analysis.shouldApply && analysis.confidenceScore >= minConfidence`
JobAnalyse(a) ==
  /\ bot.at = "job_analyse"
  /\ Session(
       IF a.shouldApply /\ a.confidenceScore >= MinimumConfidenceScore
       THEN Enter([ bot EXCEPT !.analysis = a ], "apply_to_job", Given(2))
       ELSE [ bot EXCEPT !.analysis = a, !.applied = FALSE, !.at = "job_back" ])

\* the operation 'apply_to_job': the first visible apply button is clicked
ApplyBody(visible) ==
  /\ bot.at = "apply"
  /\ Session(
       IF visible
       THEN Return([ bot EXCEPT !.clicks[CardJob(bot)] = @ + 1 ], Value)
       ELSE Fail(bot, "No apply button found"))

\* `this.page.close(); this.page = pages[0]` when the context holds more
\* than one page, `this.page.goBack()` otherwise
BackToResults(b) ==
  IF PageCount(b) > 1
  THEN IF b.cur = 0
       THEN [ b EXCEPT !.mainOpen = FALSE, !.cur = 1 ]
       ELSE [ b EXCEPT !.tabs = SubSeq(@, 1, b.cur - 1) \o SubSeq(@, b.cur + 1, Len(@)),
                       !.cur = IF b.mainOpen THEN 0 ELSE 1 ]
  ELSE [ b EXCEPT !.view = IF b.cur = 0 THEN "listing" ELSE @ ]

\* back to the job list (errors are logged only) and the job's result
JobBack(back) ==
  /\ bot.at = "job_back"
  /\ Session(Return(IF back THEN BackToResults(bot) ELSE bot,
                    ApplicationResult(bot.applied)))

\* the operation of navigateToNextPage
Navigate(next) ==
  /\ bot.at = "navigate"
  /\ Session(
       IF /\ next /\ Shows(bot) = "listing"
          /\ bot.listingPage < Len(Site)
          /\ bot.applicationsCount < bot.maxApplications
       THEN Return([ bot EXCEPT !.listingPage = @ + 1 ], NavigationResult(TRUE))
       ELSE Return(bot, NavigationResult(FALSE)))

\* the operation of analyzeAndApplyToJobs ends
JobsExit ==
  /\ bot.at = "jobs_exit"
  /\ Session(Return(bot, Value))

\* the catch block of executeWithErrorRecovery for the innermost call: what
\* becomes of the call once its failure is classified by oracle reply o
Recovered(b, o) ==
  LET f == Top(b)
      r == analyzeError(o, b.failure, f.context)
      an == r.analysis
  IN  IF r.threw THEN Propagate(b, "SyntaxError")
      ELSE IF ShouldAttemptFix(f.attempt, f.retries, an)
      THEN IF "suggestedFixes" \in an.missing
           THEN Propagate(b, TypeErrorMessage)
           ELSE [ b EXCEPT !.frames[Len(b.frames)].attempt = @ + 1,
                           !.at = BodyStart(f.context),
                           !.failure = NoError ]
      ELSE IF GiveUp(an, b.failure).kind = "threw"
      THEN Propagate(b, b.failure)
      ELSE Return(b, Null)

Recover(o) ==
  /\ bot.at = "catch"
  /\ Session(Recovered(bot, o))

\* applyFix: `switch (analysis.errorType)`
applyFix(fix, an, context, pageOk, uiReply, visible) ==
  CASE ErrorTypeKey(an) = "timeout" -> fixTimeout(fix, pageOk)
    [] ErrorTypeKey(an) = "locator" ->
         IF "alternativeLocators" \in an.missing THEN FixThrew(<<>>)
         ELSE fixLocator(fix, an.alternativeLocators, context, visible)
    [] ErrorTypeKey(an) = "ui_change" -> fixUIChange(fix, context, pageOk, uiReply, visible)
    [] ErrorTypeKey(an) = "network" -> fixNetworkIssue(fix, pageOk)
    [] ErrorTypeKey(an) = "captcha" -> fixCaptchaResult
    [] OTHER -> fixDefault(fix)

\* attemptFix on a page that stays as it is while the suggestions are tried:
\* the first suggestion whose handler succeeds, or the "all failed" record
attemptFix(an, context, pageOk, uiReply, visible) ==
  LET fixes == an.suggestedFixes
      res(i) == applyFix(fixes[i], an, context, pageOk, uiReply, visible)
      hits == { i \in 1..Len(fixes) : ~res(i).threw /\ res(i).success }
  IN  IF hits = {} THEN FixAttempt(FALSE, NoLocator, <<>>, ManualIntervention)
      ELSE res(CHOOSE i \in hits : \A j \in hits : i <= j)

\* most failures counted in the sessions explored with the counters
MaxErrors == 3

\* faulty variant: fixedErrors counts every fix attempt
RecoverCounting_CountsAttempts(o, pageOk, uiReply, visible) ==
  /\ bot.at = "catch"
  /\ errorStats.totalErrors < MaxErrors
  /\ LET f == Top(bot)
         r == analyzeError(o, bot.failure, f.context)
         an == r.analysis
         fixing == ~r.threw /\ ShouldAttemptFix(f.attempt, f.retries, an)
                   /\ "suggestedFixes" \notin an.missing
         fix == attemptFix(an, f.context, pageOk, uiReply, visible)
     IN  /\ bot' = Recovered(bot, o)
         /\ errorStats' =
              [ errorStats EXCEPT
                  !.totalErrors = @ + 1,
                  !.errorTypes[ErrorTypeKey(an)] = IF r.threw THEN @ ELSE @ + 1,
                  !.fixedErrors = IF fixing THEN @ + 1 ELSE @ ]
         /\ fixResult' = IF ~fixing THEN "none"
                         ELSE IF fix.success THEN "success" ELSE "failure"
         /\ successfulFixes' =
              IF fixing /\ fix.success /\ fix.newLocator # NoLocator
              THEN [ successfulFixes EXCEPT ![f.context] = fix.newLocator ]
              ELSE successfulFixes
  /\ UNCHANGED << credentials, errorAnalyzer, errorHistory, pc, call, retries,
                  attempt, err, oracle, analysis, fixIdx, probes, invocations,
                  outcome, fixNotes, resumed, classified, resolver, client, server >>

\* the catch block with the bookkeeping of the session: totalErrors, the
\* errorTypes entry, and fixedErrors when the dispatcher reports success
RecoverCounting(o, pageOk, uiReply, visible) ==
  /\ bot.at = "catch"
  /\ errorStats.totalErrors < MaxErrors
  /\ LET f == Top(bot)
         r == analyzeError(o, bot.failure, f.context)
         an == r.analysis
         fixing == ~r.threw /\ ShouldAttemptFix(f.attempt, f.retries, an)
                   /\ "suggestedFixes" \notin an.missing
         fix == attemptFix(an, f.context, pageOk, uiReply, visible)
     IN  /\ bot' = Recovered(bot, o)
         /\ errorStats' =
              [ errorStats EXCEPT
                  !.totalErrors = @ + 1,
                  !.errorTypes[ErrorTypeKey(an)] = IF r.threw THEN @ ELSE @ + 1,
                  !.fixedErrors = IF fixing /\ fix.success THEN @ + 1 ELSE @ ]
         /\ fixResult' = IF ~fixing THEN "none"
                         ELSE IF fix.success THEN "success" ELSE "failure"
         /\ successfulFixes' =
              IF fixing /\ fix.success /\ fix.newLocator # NoLocator
              THEN [ successfulFixes EXCEPT ![f.context] = fix.newLocator ]
              ELSE successfulFixes
  /\ UNCHANGED << credentials, errorAnalyzer, errorHistory, pc, call, retries,
                  attempt, err, oracle, analysis, fixIdx, probes, invocations,
                  outcome, fixNotes, resumed, classified, resolver, client, server >>

\* generateSelfHealingReport, the last statement of the try block
Report ==
  /\ bot.step = "report"
  /\ Session([ bot EXCEPT !.reported = TRUE, !.step = "finally" ])

\* the catch block of start(): the error is logged
Catch ==
  /\ bot.step = "catch"
  /\ Session([ bot EXCEPT !.step = "finally" ])

\* the finally block of start(): the browser, if any, is closed
Finally ==
  /\ bot.step = "finally"
  /\ Session([ bot EXCEPT !.step = "closed",
                          !.browser = IF @ = "open" THEN "closed" ELSE @ ])

\* the analyses of the sessions explored by SpecSession: apply, or skip
SessionJobAnalyses == { JobAnalysis(TRUE, 70), JobAnalysis(FALSE, 70) }

\* the controls a login page may show
LoginControls ==
  { EmailSelectors[1], EmailSelectors[3], PasswordSelectors[1], SubmitSelectors[1] }

InitSession ==
  /\ credentials \in { loadCredentials(raw) : raw \in 0..MaxCfgRetries }
  /\ errorAnalyzer = TRUE
  /\ errorStats = [ totalErrors |-> 0, fixedErrors |-> 0,
                    errorTypes |-> [ k \in KindKeys |-> 0 ] ]
  /\ errorHistory = [ m \in Messages |-> 0 ]
  /\ successfulFixes = [ c \in Contexts |-> NoLocator ]
  /\ pc = "idle"
  /\ call = [ context |-> "login", maxRetries |-> Omitted ]
  /\ retries = 0
  /\ attempt = 0
  /\ err = NoError
  /\ oracle = NoOracle
  /\ analysis = NoAnalysis
  /\ fixIdx = 0
  /\ probes = <<>>
  /\ invocations = 0
  /\ outcome = Pending
  /\ fixResult = "none"
  /\ fixNotes = NoNotes
  /\ resumed = FALSE
  /\ classified = <<>>
  /\ resolver = NoResolver
  /\ bot \in { NewBot(n) : n \in 1..MaxApplications }
  /\ client = NewClient(1)
  /\ server = NewServer

NextSession ==
  \/ \E launched \in BOOLEAN : Start(launched)
  \/ \E loaded, verified \in BOOLEAN, visible \in SUBSET LoginControls :
       LoginBody(loaded, visible, verified)
  \/ \E m \in SearchFailures \cup { NoError } : SearchBody(m)
  \/ JobsEnter
  \/ \E found \in BOOLEAN : JobsWhile(found)
  \/ JobsFor
  \/ \E extracted \in BOOLEAN, llm \in ExclusionReplies : JobExtract(extracted, llm)
  \/ \E opened \in { "no", "same" }, shown, back \in BOOLEAN, llm \in ExclusionReplies :
       JobOpen(opened, shown, llm, back)
  \/ \E a \in SessionJobAnalyses : JobAnalyse(a)
  \/ \E visible \in BOOLEAN : ApplyBody(visible)
  \/ \E back \in BOOLEAN : JobBack(back)
  \/ \E next \in BOOLEAN : Navigate(next)
  \/ JobsExit
  \/ \E o \in SessionOracleOutcomes : Recover(o)
  \/ Report
  \/ Catch
  \/ Finally

SpecSession == InitSession /\ [][NextSession]_vars

\* ---- the apply loop of a session whose login and search went through at
\* once, on a site that may open job details in a new tab, with the
\* session's error counters
JobsStart(maxApplications) ==
  Enter([ NewBot(maxApplications) EXCEPT
            !.step = "jobs", !.browser = "open", !.analyzerPage = 0,
            !.loginOk = TRUE, !.view = "listing", !.listingPage = 1 ],
        "job_analysis_and_application", Omitted)

\* the oracle's classifications in these sessions
JobsOracleOutcomes ==
  { Unreachable }
  \cup { Reply(<< Prose, Json(o), Prose >>) :
          o \in { a \in OracleObjects :
                    a.errorType \in { "captcha", "network" } /\ a.severity = "high" } }

InitJobs ==
  /\ credentials = loadCredentials(0)
  /\ errorAnalyzer = TRUE
  /\ errorStats = [ totalErrors |-> 0, fixedErrors |-> 0,
                    errorTypes |-> [ k \in KindKeys |-> 0 ] ]
  /\ errorHistory = [ m \in Messages |-> 0 ]
  /\ successfulFixes = [ c \in Contexts |-> NoLocator ]
  /\ pc = "idle"
  /\ call = [ context |-> "login", maxRetries |-> Omitted ]
  /\ retries = 0
  /\ attempt = 0
  /\ err = NoError
  /\ oracle = NoOracle
  /\ analysis = NoAnalysis
  /\ fixIdx = 0
  /\ probes = <<>>
  /\ invocations = 0
  /\ outcome = Pending
  /\ fixResult = "none"
  /\ fixNotes = NoNotes
  /\ resumed = FALSE
  /\ classified = <<>>
  /\ resolver = NoResolver
  /\ bot = JobsStart(1)
  /\ client = NewClient(1)
  /\ server = NewServer

NextJobs ==
  \/ JobsEnter
  \/ \E found \in BOOLEAN : JobsWhile(found)
  \/ JobsFor
  \/ \E extracted \in BOOLEAN, llm \in ExclusionReplies : JobExtract(extracted, llm)
  \/ \E opened \in { "no", "same", "tab" }, shown, back \in BOOLEAN,
        llm \in ExclusionReplies :
       JobOpen(opened, shown, llm, back)
  \/ \E a \in JobAnalyses : JobAnalyse(a)
  \/ \E visible \in BOOLEAN : ApplyBody(visible)
  \/ \E back \in BOOLEAN : JobBack(back)
  \/ \E next \in BOOLEAN : Navigate(next)
  \/ JobsExit
  \/ \E o \in JobsOracleOutcomes : Recover(o)
  \/ Report
  \/ Catch
  \/ Finally

SpecJobs == InitJobs /\ [][NextJobs]_vars

\* ---- the same apply loop on a site that opens job details in the same
\* page, with the session's error counters
NextCounted ==
  \/ JobsEnter
  \/ \E found \in BOOLEAN : JobsWhile(found)
  \/ JobsFor
  \/ \E extracted \in BOOLEAN, llm \in ExclusionReplies : JobExtract(extracted, llm)
  \/ \E opened \in { "no", "same" }, shown, back \in BOOLEAN, llm \in ExclusionReplies :
       JobOpen(opened, shown, llm, back)
  \/ \E a \in SessionJobAnalyses : JobAnalyse(a)
  \/ \E visible \in BOOLEAN : ApplyBody(visible)
  \/ \E back \in BOOLEAN : JobBack(back)
  \/ \E next \in BOOLEAN : Navigate(next)
  \/ JobsExit
  \/ \E o \in JobsOracleOutcomes, pageOk \in BOOLEAN :
       RecoverCounting(o, pageOk, [ ok |-> FALSE, tokens |-> <<>> ], {})
  \/ Report
  \/ Catch
  \/ Finally

SpecCounted == InitJobs /\ [][NextCounted]_vars


\* ---- NaukriJobApplicant.applyToJobs (naukri-client.ts), the bot without
\* the self-healing engine
ClientStep(c) ==
  /\ client' = c
  /\ UNCHANGED << engineVars, resolver, bot, server >>

\* `while (applicationsCount < maxApplications)` and the job cards of the page
ClientWhile(found) ==
  /\ client.at = "while"
  /\ ClientStep(
       IF client.applicationsCount < client.maxApplications /\ found
       THEN [ client EXCEPT !.cardIdx = 1, !.at = "for" ]
       ELSE [ client EXCEPT !.at = "done" ])

\* one iteration of the for loop: read the card, skip it or open it, click
\* Apply when the button shows, record the job only when the success text shows
ClientCard(read, button, crash, success) ==
  /\ client.at = "for"
  /\ client.cardIdx <= Len(Site[client.page])
  /\ client.applicationsCount < client.maxApplications
  /\ LET id == Site[client.page][client.cardIdx]
         next == [ client EXCEPT !.cardIdx = @ + 1 ]
         clicked == [ next EXCEPT !.clicks[id] = @ + 1 ]
     IN  ClientStep(
           IF ~read THEN next
           ELSE IF id \in client.appliedJobs THEN next
           ELSE IF KeywordHit(ToLowerCase(Chars(Jobs[id].title))) THEN next
           ELSE IF ~button THEN next
           ELSE IF crash THEN clicked
           ELSE IF success
           THEN [ clicked EXCEPT !.appliedJobs = @ \cup { id },
                                 !.applicationsCount = @ + 1 ]
           ELSE clicked)

\* after the for loop: the next page, or the end of applyToJobs
ClientNext(next) ==
  /\ client.at = "for"
  /\ \/ client.cardIdx > Len(Site[client.page])
     \/ client.applicationsCount >= client.maxApplications
  /\ ClientStep(
       IF /\ next /\ client.page < Len(Site)
          /\ client.applicationsCount < client.maxApplications
       THEN [ client EXCEPT !.page = @ + 1, !.currentPage = @ + 1, !.at = "while" ]
       ELSE [ client EXCEPT !.at = "done" ])

InitClient ==
  /\ credentials = loadCredentials(0)
  /\ errorAnalyzer = FALSE
  /\ errorStats = [ totalErrors |-> 0, fixedErrors |-> 0,
                    errorTypes |-> [ k \in KindKeys |-> 0 ] ]
  /\ errorHistory = [ m \in Messages |-> 0 ]
  /\ successfulFixes = [ c \in Contexts |-> NoLocator ]
  /\ pc = "idle"
  /\ call = [ context |-> "login", maxRetries |-> Omitted ]
  /\ retries = 0
  /\ attempt = 0
  /\ err = NoError
  /\ oracle = NoOracle
  /\ analysis = NoAnalysis
  /\ fixIdx = 0
  /\ probes = <<>>
  /\ invocations = 0
  /\ outcome = Pending
  /\ fixResult = "none"
  /\ fixNotes = NoNotes
  /\ resumed = FALSE
  /\ classified = <<>>
  /\ resolver = NoResolver
  /\ bot = NewBot(1)
  /\ client \in { [ NewClient(n) EXCEPT !.at = "while" ] : n \in 1..MaxApplications }
  /\ server = NewServer

NextClient ==
  \/ \E found \in BOOLEAN : ClientWhile(found)
  \/ \E read, button, crash, success \in BOOLEAN : ClientCard(read, button, crash, success)
  \/ \E next \in BOOLEAN : ClientNext(next)

SpecClient == InitClient /\ [][NextClient]_vars

\* ---- the MCP server's CallTool handler (server.ts)
ServerStep(s) ==
  /\ server' = s
  /\ UNCHANGED << engineVars, resolver, bot, client >>

\* the handler returns r
Respond(s, r) ==
  [ s EXCEPT !.at = "idle", !.result = r, !.threw = FALSE, !.served = @ + 1 ]

\* an error reaches the catch block of the handler
Caught(s, message) ==
  Respond([ s EXCEPT !.raised = message ], ErrorResult(message))

\* a CallTool request arrives: ensureBrowserReady, the arguments test, the
\* validations of the tool's case, then the tool's method
CallTool(name, args, reach) ==
  /\ server.at = "idle"
  /\ server.served < MaxRequests
  /\ reach \in server.ready..3
  /\ LET s == [ server EXCEPT !.request = [ name |-> name, args |-> args ],
                              !.ready = reach,
                              !.result = NoResult, !.raised = <<>>,
                              !.rejected = FALSE, !.actions = {},
                              !.appliedAtCall = server.appliedJobs ]
         v == Validation(name, args.fields)
     IN  ServerStep(
           IF reach < 3 THEN Caught(s, << "browserType.launch: Failed to launch" >>)
           ELSE IF ~args.present
           THEN Caught([ s EXCEPT !.rejected = TRUE ],
                       << "Missing arguments for tool call" >>)
           ELSE IF ~v.ok THEN Caught([ s EXCEPT !.rejected = TRUE ], v.message)
           ELSE IF name = "login_naukri"
           THEN [ s EXCEPT !.at = "login", !.actions = { "login" } ]
           ELSE IF name = "search_jobs"
           THEN [ s EXCEPT !.at = "search", !.actions = { "search" } ]
           ELSE IF name = "apply_to_jobs"
           THEN [ s EXCEPT
                    !.at = "while", !.actions = { "apply" },
                    !.applicationsCount = 0,
                    !.maxApplications =
                       validateNumber(args.fields.maxApplications,
                                      DefaultMaxApplications).value.n,
                    !.excludeKeywords =
                       validateOptionalStringArray(args.fields.excludeKeywords).value.items ]
           ELSE IF name = "get_application_status"
           THEN Respond(s, getApplicationStatus(s.appliedJobs))
           ELSE Caught(s, << "Unknown tool: ", name >>))

\* loginToNaukri of the server: every error is rethrown as `Login failed: ...`
ServerLogin(loaded, filled, verified) ==
  /\ server.at = "login"
  /\ ServerStep(
       IF ~loaded THEN Caught(server, << "Login failed: ", "Timeout 30000ms exceeded" >>)
       ELSE IF ~filled THEN Caught(server, << "Login failed: ", "waiting for selector" >>)
       ELSE IF ~verified
       THEN Caught(server, << "Login failed: ", "Login failed - please check credentials" >>)
       ELSE Respond(server, ToolResult(<< "Successfully logged into Naukri.com" >>)))

\* searchJobs of the server: it shows the first result page
ServerSearch(done) ==
  /\ server.at = "search"
  /\ ServerStep(
       IF ~done THEN Caught(server, << "Job search failed: ", "Timeout 30000ms exceeded" >>)
       ELSE Respond([ server EXCEPT !.page = 1 ],
                    ToolResult(<< "Search completed! Found ", "jobs matching your criteria" >>)))

\* the text applyToJobs returns
ApplyResult == ToolResult(<< "Job application process completed!", "Applications sent: " >>)

\* `while (applicationsCount < maxApplications)` and the job cards of the page
ServerWhile(found) ==
  /\ server.at = "while"
  /\ ServerStep(
       IF server.applicationsCount >= server.maxApplications
       THEN Respond(server, ApplyResult)
       ELSE IF found = "throws"
       THEN Caught(server, << "Job application failed: ", "Timeout 30000ms exceeded" >>)
       ELSE IF found = "none" THEN Respond(server, ApplyResult)
       ELSE [ server EXCEPT !.cardIdx = 1, !.at = "for" ])

\* `excludeKeywords.some(k => jobTitle.toLowerCase().includes(k.toLowerCase()))`
ServerExcluded(title, excludeKeywords) ==
  \E i \in 1..Len(excludeKeywords) :
    Includes(ToLowerCase(Chars(title)), ToLowerCase(Chars(excludeKeywords[i])))

\* one iteration of the for loop: errors of one card are logged and skipped
ServerCard(read, button, crash) ==
  /\ server.at = "for"
  /\ server.cardIdx <= Len(Site[server.page])
  /\ server.applicationsCount < server.maxApplications
  /\ LET id == Site[server.page][server.cardIdx]
         next == [ server EXCEPT !.cardIdx = @ + 1 ]
     IN  ServerStep(
           IF ~read THEN next
           ELSE IF id \in server.appliedJobs THEN next
           ELSE IF ServerExcluded(Jobs[id].title, server.excludeKeywords) THEN next
           ELSE IF crash \/ ~button THEN next
           ELSE [ next EXCEPT !.appliedJobs = @ \cup { id },
                              !.applicationsCount = @ + 1 ])

\* after the for loop: the next page, or the end of applyToJobs
ServerNext(next) ==
  /\ server.at = "for"
  /\ \/ server.cardIdx > Len(Site[server.page])
     \/ server.applicationsCount >= server.maxApplications
  /\ ServerStep(
       IF next = "throws"
       THEN Caught(server, << "Job application failed: ", "Timeout 30000ms exceeded" >>)
       ELSE IF /\ next = "shown" /\ server.page < Len(Site)
               /\ server.applicationsCount < server.maxApplications
       THEN [ server EXCEPT !.page = @ + 1, !.at = "while" ]
       ELSE Respond(server, ApplyResult))

\* the argument objects the clients of the server send
ArgumentObjects(name) ==
  { NoArguments, EmptyObject }
  \cup (IF name = "login_naukri"
        THEN { [ EmptyObject EXCEPT !.fields.email = e, !.fields.password = p ] :
                 e \in { Undefined, JsonString }, p \in { JsonString, JsonNumber(1) } }
        ELSE {})
  \cup (IF name = "search_jobs"
        THEN { [ EmptyObject EXCEPT !.fields.keywords = k, !.fields.location = JsonString,
                                    !.fields.experience = x, !.fields.salary = s ] :
                 k \in { JsonString, JsonArray(<< "java" >>, TRUE), JsonArray(<<>>, FALSE) },
                 x \in { JsonString, JsonNull },
                 s \in { Undefined, JsonString, JsonNumber(1) } }
        ELSE {})
  \cup (IF name = "apply_to_jobs"
        THEN { [ EmptyObject EXCEPT !.fields.maxApplications = m,
                                    !.fields.excludeKeywords = k ] :
                 m \in { JsonNull, JsonString } \cup { JsonNumber(n) : n \in 1..MaxApplications },
                 k \in { Undefined, JsonString, JsonArray(<< "sales" >>, TRUE),
                         JsonArray(<< "sales" >>, FALSE) } }
        ELSE {})

InitServer ==
  /\ credentials = loadCredentials(0)
  /\ errorAnalyzer = FALSE
  /\ errorStats = [ totalErrors |-> 0, fixedErrors |-> 0,
                    errorTypes |-> [ k \in KindKeys |-> 0 ] ]
  /\ errorHistory = [ m \in Messages |-> 0 ]
  /\ successfulFixes = [ c \in Contexts |-> NoLocator ]
  /\ pc = "idle"
  /\ call = [ context |-> "login", maxRetries |-> Omitted ]
  /\ retries = 0
  /\ attempt = 0
  /\ err = NoError
  /\ oracle = NoOracle
  /\ analysis = NoAnalysis
  /\ fixIdx = 0
  /\ probes = <<>>
  /\ invocations = 0
  /\ outcome = Pending
  /\ fixResult = "none"
  /\ fixNotes = NoNotes
  /\ resumed = FALSE
  /\ classified = <<>>
  /\ resolver = NoResolver
  /\ bot = NewBot(1)
  /\ client = NewClient(1)
  /\ server = NewServer

NextServer ==
  \/ \E name \in ToolNames \cup { "delete_account" } :
       \E args \in ArgumentObjects(name), reach \in 0..3 : CallTool(name, args, reach)
  \/ \E loaded, filled, verified \in BOOLEAN : ServerLogin(loaded, filled, verified)
  \/ \E done \in BOOLEAN : ServerSearch(done)
  \/ \E found \in { "cards", "none", "throws" } : ServerWhile(found)
  \/ \E read, button, crash \in BOOLEAN : ServerCard(read, button, crash)
  \/ \E next \in { "shown", "hidden", "throws" } : ServerNext(next)

SpecServer == InitServer /\ [][NextServer]_vars

\* ================================================================ claims
\* a failure has been classified in the current iteration of the loop
Classified == oracle # NoOracle

\* the current classification came from fallbackErrorAnalysis
ViaFallback ==
  /\ Classified
  /\ ~(oracle.ok /\ JsonMatch(oracle.content) # <<>> /\ JsonParses(JsonMatch(oracle.content)))

\* C1: for every N >= 0 passed as maxRetries, the operation is invoked at
\* most N times by one call.
C1_AtMostN ==
  call.maxRetries.given => invocations <= call.maxRetries.n

\* C2: when an attempt fails and no retry slot remains or shouldRetry is
\* false, the step that classifies the failure ends the call at once -- no
\* fix, no further invocation -- rethrowing the caught error on high
\* severity and returning null on low or medium severity.
C2_GiveUp ==
  [][ (pc = "analyze" /\ (attempt = retries \/ ~Truthy(analysis', "shouldRetry")))
      => /\ pc' = "done"
         /\ invocations' = invocations
         /\ fixResult' = "none" /\ fixIdx' = 0 /\ probes' = <<>>
         /\ errorStats'.fixedErrors = errorStats.fixedErrors
         /\ (analysis'.severity = "high" /\ "severity" \notin analysis'.missing
               => outcome' = Threw(err))
         /\ (analysis'.severity \in { "low", "medium" } /\ "severity" \notin analysis'.missing
               => outcome' = ReturnedNull) ]_vars

\* C2 witness: shouldRetry=false, severity=high on attempt 1 of maxRetries=2:
\* the original error is raised after exactly one invocation.
C2_Witness ==
  /\ pc = "done" /\ Classified
  /\ call.maxRetries = Given(2) /\ attempt = 1
  /\ ~analysis.shouldRetry /\ analysis.severity = "high"
  /\ outcome = Threw(err) /\ invocations = 1

\* C3: analyzeError never throws, and with the oracle unreachable it returns
\* exactly the classification of the deterministic rules, a well-formed one.
C3_NeverThrows ==
  /\ ~(pc = "done" /\ outcome = Threw("SyntaxError"))
  /\ (Classified /\ ~oracle.ok)
       => /\ analysis = fallbackErrorAnalysis(err, call.context)
          /\ IsClassification(analysis)

\* C3 witness: the oracle was unreachable and a classification came back.
C3_Witness ==
  /\ Classified /\ ~oracle.ok
  /\ analysis.errorType = "locator" /\ pc = "attemptFix"

\* C4: a reply object that lacks a required field or carries a value outside
\* its enumeration is never handed to the executor: the classification in
\* use is always well-formed.
C4_Validated ==
  Classified => IsClassification(analysis)

\* C5: two failures with "Timeout 30000ms exceeded", both classified by the
\* deterministic rules, then success, with three retries: the call returns
\* the operation's value, totalErrors = 2 and the 'timeout' counter = 2.
C5_Scenario ==
  ( /\ pc = "done" /\ retries = 3 /\ invocations = 3
    /\ outcome.kind = "returned"
    /\ classified = << [ message |-> "Timeout 30000ms exceeded", fallback |-> TRUE ],
                       [ message |-> "Timeout 30000ms exceeded", fallback |-> TRUE ] >> )
  => /\ outcome = Returned(OpResult)
     /\ errorStats.totalErrors = 2
     /\ errorStats.errorTypes["timeout"] = 2

\* C6: under the fallback path every message containing "timeout" in any
\* letter case is classified with kind timeout.
C6_CaseInsensitive ==
  (ViaFallback /\ Includes(ToLowerCase(Chars(err)), Chars("timeout")))
  => analysis.errorType = "timeout"

\* the classification C7 expects for a locator failure during login
C7_Expected(a) ==
  /\ a.errorType = "locator" /\ a.severity = "high" /\ a.shouldRetry
  /\ a.alternativeLocators = LoginCandidates
  /\ a.missing = {}

\* C7 as stated: oracle unreachable, message contains "locator", context
\* "login" => kind locator, severity high, shouldRetry, login candidates.
C7_Original ==
  (Classified /\ ~oracle.ok /\ StrIncludes(err, "locator") /\ call.context = "login")
  => C7_Expected(analysis)

\* C7 amended: the same, for messages that do not also contain "timeout"
\* (the timeout rule is tested first).
C7_LocatorLogin ==
  ( /\ Classified /\ ~oracle.ok /\ call.context = "login"
    /\ StrIncludes(err, "locator") /\ ~StrIncludes(err, "timeout") )
  => C7_Expected(analysis)

\* C7 witness: "locator not visible" during login, oracle unreachable.
C7_Witness ==
  /\ Classified /\ ~oracle.ok /\ call.context = "login"
  /\ err = "locator not visible" /\ C7_Expected(analysis)

\* C8: in the fallback's context-keyed default table a context containing
\* "login" gets the login list, one containing "job" the job list and one
\* containing "apply" the apply list, for every label the bot passes.
C8_ContextTable ==
  (ViaFallback /\ analysis.errorType = "locator")
  => /\ StrIncludes(call.context, "login") => analysis.alternativeLocators = LoginCandidates
     /\ StrIncludes(call.context, "job") => analysis.alternativeLocators = JobCandidates
     /\ StrIncludes(call.context, "apply") => analysis.alternativeLocators = ApplyCandidates

\* C9: once a fix has cached locator L for context C, a later locator fix in
\* the same context probes L before any other candidate.
C9_CachedFirst ==
  [][ ( /\ pc = "applyFix" /\ ErrorTypeKey(analysis) = "locator"
        /\ probes = <<>> /\ probes' # <<>>
        /\ successfulFixes[call.context] # NoLocator )
      => probes'[1] = successfulFixes[call.context] ]_vars

\* C10 as stated: whenever the dispatcher has returned for a classification
\* of kind captcha, the resume signal had arrived and the result is success.
C10_Original ==
  (Classified /\ ErrorTypeKey(analysis) = "captcha" /\ fixResult # "none")
  => (resumed /\ fixResult = "success")

\* C10 amended: the same for a captcha classification with at least one
\* suggested fix; and while the handler waits, nothing happens but the
\* resume signal -- no timeout, no further attempt.
C10_CaptchaBlocks ==
  /\ []( ( /\ Classified /\ ErrorTypeKey(analysis) = "captcha"
           /\ "suggestedFixes" \notin analysis.missing
           /\ analysis.suggestedFixes # <<>> /\ fixResult # "none" )
         => (resumed /\ fixResult = "success") )
  /\ [][ pc = "captchaWait"
         => /\ resumed' /\ ~resumed
            /\ invocations' = invocations /\ attempt' = attempt + 1
            /\ fixResult' = "success" ]_vars

\* C10 witness: the captcha question was answered and the fix reported success.
C10_Witness ==
  /\ Classified /\ analysis.errorType = "captcha" /\ analysis.suggestedFixes # <<>>
  /\ resumed /\ fixResult = "success" /\ pc = "operation"

HandlerSuccessNotes(kind) ==
  CASE kind = "timeout" ->
         { "Added 5 second delay", "Waited for DOM to load", "Reloaded page" }
    [] kind = "locator" ->
         { "Found working locator", "Discovered login element", "Discovered job element" }
    [] kind = "ui_change" -> { "Adapted to UI change" }
    [] kind = "network" -> { "Reloaded page after network delay" }
    [] kind = "captcha" -> { "CAPTCHA resolved manually" }
    [] OTHER -> {}

\* the suggestion handlers are at work
Fixing == pc \in { "attemptFix", "applyFix", "captchaWait" }

\* C12: attemptFix tries suggestedFixes in list order through the handler of
\* the classification's kind, returns the first success without trying a
\* later suggestion, and returns the "manual intervention" failure when every
\* suggestion failed or threw or the list is empty.
C12_InOrderFirstSuccess ==
  /\ [] /\ fixResult = "failure"
             => /\ fixNotes = ManualIntervention
                /\ fixIdx = Len(analysis.suggestedFixes)
        /\ fixResult = "success"
             => /\ fixIdx \in 1..Len(analysis.suggestedFixes)
                /\ fixNotes \in HandlerSuccessNotes(ErrorTypeKey(analysis))
  /\ [][ /\ (pc = "attemptFix" /\ pc' = "applyFix") => fixIdx' = 1
         /\ (pc \in { "applyFix", "captchaWait" } /\ pc' = "applyFix")
              => fixIdx' = fixIdx + 1 /\ fixResult' = "none"
         /\ (fixResult = "none" /\ fixResult' = "success")
              => /\ pc \in { "applyFix", "captchaWait" }
                 /\ fixIdx' = fixIdx /\ ~Fixing' ]_vars

\* C12 witness: the first suggestion ("reload page") failed, the second
\* ("retry operation") succeeded and was returned.
C12_Witness ==
  /\ fixResult = "success" /\ fixIdx = 2
  /\ ErrorTypeKey(analysis) = "network"
  /\ analysis.suggestedFixes = << "reload page", "retry operation" >>
  /\ fixNotes = "Reloaded page after network delay"

\* C13: attemptFix returns a FixAttempt for every classification analyzeError
\* hands to it and never throws, so no failed repair leaves
\* executeWithErrorRecovery as an exception.
C13_AlwaysAnOutcome ==
  ~(pc = "done" /\ outcome = Threw("TypeError"))

\* the sum of the counts of a message -> count map
RECURSIVE Total(_, _)
Total(f, S) ==
  IF S = {} THEN 0
  ELSE LET x == CHOOSE y \in S : TRUE IN f[x] + Total(f, S \ { x })

\* C14: every failed invocation adds one to totalErrors and one to the
\* errorFrequency entry of its message, on the oracle path and on the
\* fallback path alike: once a failure is classified, the errorFrequency
\* counts add up to totalErrors.
C14_FrequencyMatchesTotal ==
  pc # "analyze" => Total(errorHistory, Messages) = errorStats.totalErrors

\* C15: within one call the events of a failure are totally ordered: its
\* classification starts after the failure and is finished before any fix
\* attempt for it starts, and the fix attempts are finished (success or
\* exhaustion) before the operation is invoked again.
C15_Ordered ==
  /\ [] ( Fixing => /\ Classified /\ err # NoError
                    /\ Len(classified) = invocations
                    /\ classified[Len(classified)].message = err
                    /\ fixResult = "none" )
  /\ [][ /\ Len(classified') > Len(classified)
              => /\ pc = "analyze" /\ err # NoError /\ ~Classified
                 /\ invocations = Len(classified')
                 /\ fixResult = "none" /\ fixIdx = 0
         /\ (Fixing' /\ ~Fixing) => pc = "analyze" /\ Classified'
         /\ invocations' > invocations
              => /\ pc = "operation" /\ ~Fixing
                 /\ invocations > 0
                      => /\ fixResult \in { "success", "failure" }
                         /\ Len(classified) = invocations ]_vars

\* C15 witness: the second invocation is about to start after the failure of
\* the first was classified and both of its suggestions were tried in vain.
C15_Witness ==
  /\ pc = "operation" /\ invocations = 1 /\ attempt = 2
  /\ Len(classified) = 1
  /\ fixResult = "failure" /\ fixIdx = 2

\* C16: a session never closes its browser without having printed the
\* session-end summary, sessions ended by a propagated error included.
C16_SummaryBeforeClose ==
  bot.browser = "closed" => bot.reported

\* C17: the jobs applied to in one session never outnumber
\* jobPreferences.maxApplications, whatever fails and is retried.
C17_WithinLimit ==
  Cardinality(bot.appliedJobs) <= bot.maxApplications

\* C18: once the apply button of a job was clicked, it is never clicked again
\* for that job id in the session.
C18_NoSecondApply ==
  \A j \in JobIds : client.clicks[j] <= 1 /\ bot.clicks[j] <= 1

\* the excludeKeywords test on what the listing shows of job j
CardKeyword(j) ==
  KeywordHit(ToLowerCase(Template3(Chars(Jobs[j].title), Chars(Jobs[j].company),
                                   Chars(Jobs[j].description))))
\* the excludeKeywords test on the description of the details page of job j
DetailsKeyword(j) ==
  KeywordHit(ToLowerCase(Trim(Chars(Jobs[j].details))))

\* the jobs either test finds a keyword in
CardKeywordJobs == { j \in JobIds : CardKeyword(j) }
DetailsKeywordJobs == { j \in JobIds : DetailsKeyword(j) }

\* 'apply_to_job' is running
Applying ==
  bot.frames # <<>> /\ Top(bot).context = "apply_to_job"

\* C19 as stated: a job whose title, company or description text -- on the
\* listing or on its details page -- contains an excludeKeywords entry is
\* never applied to and no 'apply_to_job' is started for it.
C19_Original ==
  /\ Applying => CardJob(bot) \notin CardKeywordJobs /\ CardJob(bot) \notin DetailsKeywordJobs
  /\ \A j \in bot.appliedJobs : j \notin CardKeywordJobs \cup DetailsKeywordJobs

\* C19, amended: a job is never applied to, and never gets a result other
\* than an excluded one, when an excludeKeywords entry occurs (in any letter
\* case) in its title, its company, its listing description, or in the
\* details description the bot adopted (visible and longer than the listing
\* description) -- whatever the company oracle answers.
C19_KeywordExcluded ==
  /\ [] /\ Applying => /\ CardJob(bot) \notin CardKeywordJobs
                       /\ bot.adopted => CardJob(bot) \notin DetailsKeywordJobs
        /\ \A j \in bot.appliedJobs : j \notin CardKeywordJobs
        /\ \A r \in bot.applicationResults : r.job \notin CardKeywordJobs
  /\ [][ /\ (bot.at = "job_extract" /\ CardJob(bot) \in CardKeywordJobs)
              => /\ bot'.at = "jobs_for"
                 /\ bot'.applicationResults = bot.applicationResults
                 /\ bot'.appliedJobs = bot.appliedJobs
         /\ (bot.at = "job_open" /\ bot'.adopted /\ CardJob(bot) \in DetailsKeywordJobs
               /\ bot' # bot)
              => /\ bot'.at = "jobs_for"
                 /\ CardJob(bot) \in bot'.excludedJobs
                 /\ bot'.applicationResults = bot.applicationResults ]_vars

\* C19 witness: the job with "SALES" in its title and the job whose adopted
\* details mention "Night Shift" were both returned as excluded, while
\* another job was applied to.
C19_Witness ==
  /\ { "K", "S" } \subseteq bot.excludedJobs
  /\ bot.appliedJobs = { "A" }
  /\ bot.step = "report"

\* C20: when no login control ever becomes visible, the login step fails
\* hard and the workflow never reaches searchJobs: a session is past the
\* login step only after a login that was verified.
C20_LoginFatal ==
  bot.step \in { "search", "jobs", "report" } => bot.loginOk

\* C22: a successful fix consumes one retry slot. The operation has been
\* invoked exactly `attempt` times whatever the fixes did, a fix that succeeds
\* moves the loop to the next attempt, and a failure on the last attempt
\* (attempt 2 of maxRetries = 2) is classified and then ends the call by the
\* severity rule, with no fix and no further invocation.
C22_FixConsumesSlot ==
  /\ [] ( /\ pc \in { "analyze", "attemptFix", "applyFix", "captchaWait" }
              => invocations = attempt
          /\ pc = "operation" => invocations = attempt - 1
          /\ invocations <= retries )
  /\ [][ /\ (fixResult' = "success" /\ fixResult # "success")
              => /\ attempt' = attempt + 1
                 /\ invocations' = invocations
                 /\ pc' = "operation"
         /\ (pc = "analyze" /\ attempt = retries)
              => /\ pc' = "done"
                 /\ invocations' = invocations
                 /\ fixResult' = "none"
                 /\ errorStats'.fixedErrors = errorStats.fixedErrors
                 /\ outcome' = IF /\ "severity" \notin analysis'.missing
                                  /\ analysis'.severity = "high"
                               THEN Threw(err) ELSE ReturnedNull ]_vars

\* C22 witness: maxRetries = 2, attempt 1 failed and was repaired, attempt 2
\* failed too: the call has ended with null after exactly two invocations.
C22_Witness ==
  /\ pc = "done" /\ call.maxRetries = Given(2)
  /\ attempt = 2 /\ invocations = 2
  /\ errorStats.fixedErrors = 1 /\ errorStats.totalErrors = 2
  /\ Truthy(analysis, "shouldRetry")
  /\ outcome = ReturnedNull

\* C23: for a classification of kind network the handler reports success
\* exactly when the reload completes, whatever the wording of the label.
C23_EveryLabelReloads ==
  (pc = "applyFix" /\ ErrorTypeKey(analysis) = "network")
  => \A pageOk \in BOOLEAN :
       LET r == fixNetworkIssue(CurrentFix, pageOk)
       IN  (~r.threw /\ r.success) <=> pageOk

\* the first {...} block of a reply text
FirstBlock(content) ==
  LET braces == { i \in 1..Len(content) : content[i].t # "prose" }
  IN  content[CHOOSE i \in braces : \A j \in braces : i <= j]

\* C24: when the reply holds a well-formed classification object followed
\* by further text with braces of its own, the classification returned is
\* the one the first block encodes.
C24_FirstBlockParsed ==
  ( /\ Classified /\ oracle.ok
    /\ \E i \in 1..Len(oracle.content) : oracle.content[i].t # "prose"
    /\ FirstBlock(oracle.content).t = "json"
    /\ IsClassification(FirstBlock(oracle.content).obj) )
  => analysis = FirstBlock(oracle.content).obj

\* C25: a call whose effective retry count is at least 1 ends by returning
\* the operation's result, by returning null, or by rethrowing the error the
\* operation raised; in particular never with "Max retries exceeded".
C25_ThreeWays ==
  (pc = "done" /\ retries >= 1)
  => \/ outcome = Returned(OpResult)
     \/ outcome = ReturnedNull
     \/ outcome.kind = "threw" /\ err # NoError /\ outcome.value = err

\* text.startsWith(prefix) for a text given by its pieces
RECURSIVE StartsWith(_, _)
StartsWith(text, prefix) ==
  IF prefix = <<>> THEN TRUE
  ELSE IF text = <<>> THEN FALSE
  ELSE LET h == Chars(text[1])
       IN  IF Len(h) >= Len(prefix) THEN SubSeq(h, 1, Len(prefix)) = prefix
           ELSE /\ SubSeq(prefix, 1, Len(h)) = h
                /\ StartsWith(Tail(text), SubSeq(prefix, Len(h) + 1, Len(prefix)))

\* the last call has been answered
Answered == server.at = "idle" /\ server.served > 0

\* C21: get_application_status, whose schema declares no property and
\* requires none, answers a call without arguments with the status (count
\* and ids of appliedJobs), not with an error result.
C21_StatusWithoutArguments ==
  ( /\ Answered /\ server.ready = 3
    /\ server.request.name = "get_application_status"
    /\ ~server.request.args.present )
  => /\ ~StartsWith(server.result.text, Chars("Error: "))
     /\ server.result.size = Cardinality(server.appliedJobs)
     /\ server.result.ids = server.appliedJobs

\* the inputSchema of the tools: required fields and declared types
Required(name) ==
  CASE name = "login_naukri" -> { "email", "password" }
    [] name = "search_jobs" -> { "keywords", "location", "experience" }
    [] OTHER -> {}
Declared(name) ==
  CASE name = "login_naukri" -> { "email", "password" }
    [] name = "search_jobs" -> { "keywords", "location", "experience", "salary" }
    [] name = "apply_to_jobs" -> { "maxApplications", "excludeKeywords" }
    [] OTHER -> {}
FieldType(f) ==
  CASE f \in { "keywords", "excludeKeywords" } -> "array"
    [] f = "maxApplications" -> "number"
    [] OTHER -> "string"

\* a required field is missing, or a field holds a value of another type
IllTyped(request) ==
  \E f \in Declared(request.name) :
    LET v == request.args.fields[f]
    IN  \/ f \in Required(request.name) /\ v.t = "undefined"
        \/ /\ v.t \notin { "undefined", "null" }
           /\ v.t # FieldType(f) \/ (v.t = "array" /\ ~v.strings)

\* C30: the CallTool handler never throws; an unknown tool, missing or
\* ill-typed arguments and every error raised while the tool runs are
\* answered with a text starting with "Error: "; a call rejected by the
\* argument checks enters no login, search or apply method and leaves
\* appliedJobs as it was.
C30_FailuresAreValues ==
  /\ ~server.threw
  /\ (Answered /\ server.raised # <<>>)
       => StartsWith(server.result.text, Chars("Error: "))
  /\ ( /\ Answered
       /\ \/ server.request.name \notin ToolNames
          \/ ~server.request.args.present
          \/ IllTyped(server.request)
          \/ server.rejected )
       => /\ StartsWith(server.result.text, Chars("Error: "))
          /\ server.actions = {}
          /\ server.appliedJobs = server.appliedAtCall
  /\ server.actions # {}
       => /\ server.request.name \in ToolNames
          /\ server.request.args.present
          /\ ~IllTyped(server.request) /\ ~server.rejected
  /\ server.at # "idle" => server.actions # {}

\* C30 witness: after a call that applied to a job, an apply_to_jobs call
\* with an ill-typed argument was answered with an error and did nothing.
C30_Witness ==
  /\ Answered /\ server.served = 2
  /\ server.request.name = "apply_to_jobs" /\ IllTyped(server.request)
  /\ server.appliedJobs # {} /\ server.appliedJobs = server.appliedAtCall
  /\ server.actions = {}
  /\ server.result.text = << "Error: ", "Value must be a number" >>

\* C26: the counters of a session are consistent, nested calls included:
\* fixedErrors <= totalErrors; the per-kind counts add up to totalErrors
\* (every failure is classified, the analyzer being present); no counter
\* ever decreases; fixedErrors grows by one, and only together with a
\* dispatcher result that reports success.
C26_CountersConsistent ==
  /\ [] ( /\ errorStats.fixedErrors <= errorStats.totalErrors
          /\ Total(errorStats.errorTypes, KindKeys) = errorStats.totalErrors )
  /\ [][ /\ errorStats'.totalErrors >= errorStats.totalErrors
         /\ errorStats'.fixedErrors >= errorStats.fixedErrors
         /\ \A k \in KindKeys : errorStats'.errorTypes[k] >= errorStats.errorTypes[k]
         /\ errorStats'.fixedErrors # errorStats.fixedErrors
              => /\ errorStats'.fixedErrors = errorStats.fixedErrors + 1
                 /\ errorStats'.totalErrors = errorStats.totalErrors + 1
                 /\ fixResult' = "success" ]_vars

\* C26 witness: three failures were counted, one inside 'apply_to_job' and
\* repaired, the next one rethrown into 'process_job' and repaired there too.
C26_Witness ==
  /\ errorStats.totalErrors = 3 /\ errorStats.fixedErrors = 2
  /\ errorStats.errorTypes["captcha"] = 3
  /\ Len(bot.frames) = 2 /\ Top(bot).context = "process_job_1"
  /\ Top(bot).attempt = 2 /\ bot.at = "job_extract"

\* C27: at every failure the page the ErrorAnalysisEngine was built with is
\* the page the bot's operations drive (this.page).
C27_AnalyzerOnCurrentPage ==
  bot.at = "catch" => bot.cur = bot.analyzerPage

\* C28: whenever the 'process_job' operation starts, on a first attempt or
\* on a retry, this.page is the search-results page and no job-details tab
\* is open.
C28_StartsOnResults ==
  bot.at = "job_extract"
  => bot.cur = 0 /\ bot.mainOpen /\ bot.view = "listing" /\ bot.tabs = <<>>

\* C29: 'apply_to_job' runs only for a job that passed the exclusion check
\* and whose analysis has shouldApply and a confidence of at least
\* minimumConfidenceScore; a job id enters appliedJobs, and the job is marked
\* applied, only in the step in which that operation returns its value, never
\* when the call returned null.
C29_ApplyOnlyIfRecommended ==
  /\ [] ( /\ Applying => /\ bot.passedExclusion
                          /\ bot.analysis.shouldApply
                          /\ bot.analysis.confidenceScore >= MinimumConfidenceScore
          /\ \A r \in bot.applicationResults : r.applied => r.job \in bot.appliedJobs )
  /\ [][ /\ bot'.appliedJobs # bot.appliedJobs
              => /\ Applying /\ bot.at = "apply"
                 /\ bot'.appliedJobs = bot.appliedJobs \cup { CardJob(bot) }
                 /\ bot'.clicks[CardJob(bot)] = bot.clicks[CardJob(bot)] + 1
                 /\ bot'.applied
         /\ (bot'.applied /\ ~bot.applied) => Applying /\ bot.at = "apply"
         /\ (Applying /\ bot.at = "catch" /\ bot'.at = "job_back")
              => ~bot'.applied /\ bot'.appliedJobs = bot.appliedJobs ]_vars

\* C29 witness: job A passed the checks, its 'apply_to_job' call returned
\* null, and the bot goes on with A neither applied nor recorded.
C29_Witness ==
  /\ bot.at = "job_back" /\ CardJob(bot) = "A"
  /\ bot.analysis = JobAnalysis(TRUE, 70) /\ bot.passedExclusion
  /\ ~bot.applied /\ "A" \notin bot.appliedJobs
  /\ bot.clicks["A"] = 0

====
